---- MODULE Spec2Model ----
(***************************************************************************)
(* Section extraction (backend/build_manifest.py) and section search       *)
(* (backend/sections.py) of the SF Historic Context Statements tool.       *)
(*                                                                         *)
(* Text is modelled as TLA+ strings, read one character at a time with     *)
(* SubSeq.  The character "~" stands for the ellipsis U+2026.              *)
(***************************************************************************)
EXTENDS Integers, Sequences, FiniteSets, TLC

VARIABLES
    text,       \* parse_toc_lines: the page text handed to the parser
    lbl,        \* the label the text was built from ("" for a free text)
    pg,         \* the page number the text was built from (0 for a free text)
    form,       \* how the text was built: a form of TocForms, or "raw"
    toc_pc,     \* "ready" before the call, "done" after it
    toc_out,    \* the list parse_toc_lines returned
    pdf_files,  \* build_manifest: the documents of PDF_DIR in glob order
    run,        \* number of build_manifest calls that have returned
    b_pc,       \* position inside build_manifest
    idx,        \* position of the for loop in pdf_files (1-based)
    toc_pages,  \* local toc_pages
    toc_hits,   \* local toc_hits
    seen,       \* local seen
    sections,   \* local sections
    manifest,   \* local manifest
    out_file,   \* the file at OUT_PATH
    result,     \* what the last build_manifest call returned
    parsed,     \* history: pages of this document handed to parse_toc_lines
    scanned,    \* history: pages of this document read by the heading scan
    scan_ran,   \* history: the heading scan was entered for this document
    toc_secs,   \* history: the sections after the ToC step
    bio_out,    \* history: what parse_bio_document returned for this document
    origin,     \* history: the strategy behind each manifest entry
    first_out,  \* history: the file as the first call left it
    lib,        \* what the text functions return for each document of Docs
    s_manifest, \* search_all_sections: the manifest, as its items() in order
    answers,    \* what search_all_sections returns on s_manifest, by query
    last,       \* the last call: its query and what it returned
    log,        \* history: the call before the last one
    v_file,     \* validate_manifest: the file at manifest_path
    v_pc,       \* "ready" before the call, "done" after it
    v_result,   \* what validate_manifest returned and reported
    bio_doc,    \* parse_bio_document: the document it is given
    bio_pc,     \* "ready" before the call, "done" after it
    bio_res     \* the list parse_bio_document returned

tocVars == <<text, lbl, pg, form, toc_pc, toc_out>>

buildVars ==
    <<pdf_files, run, b_pc, idx, toc_pages, toc_hits, seen, sections, manifest,
      out_file, result, parsed, scanned, scan_ran, toc_secs, bio_out, origin,
      first_out, lib>>

searchVars == <<s_manifest, answers, last, log>>

validateVars == <<v_file, v_pc, v_result>>

bioVars == <<bio_doc, bio_pc, bio_res>>

vars == <<tocVars, buildVars, searchVars, validateVars, bioVars>>

-----------------------------------------------------------------------------
(* Python str primitives *)

Ch(s, i) == SubSeq(s, i, i)

From(s, i) == SubSeq(s, i, Len(s))

\* str.isspace characters that occur in the modelled texts (regex \s)
Whitespace == {" ", "\t", "\n"}

Digits == {"0", "1", "2", "3", "4", "5", "6", "7", "8", "9"}

UpperAlpha == "ABCDEFGHIJKLMNOPQRSTUVWXYZ"

LowerAlpha == "abcdefghijklmnopqrstuvwxyz"

UpperSet == {Ch(UpperAlpha, i) : i \in 1..26}

LowerSet == {Ch(LowerAlpha, i) : i \in 1..26}

\* regex \w
WordChars == UpperSet \cup LowerSet \cup Digits \cup {"_"}

LowerChar(c) ==
    IF c \in UpperSet
    THEN Ch(LowerAlpha, CHOOSE i \in 1..26 : Ch(UpperAlpha, i) = c)
    ELSE c

\* str.lower(), one half of the string after the other
RECURSIVE lower(_)
lower(s) ==
    IF Len(s) = 0 THEN ""
    ELSE IF Len(s) = 1 THEN LowerChar(s)
    ELSE lower(SubSeq(s, 1, Len(s) \div 2)) \o lower(From(s, (Len(s) \div 2) + 1))

\* str.strip(): from the first to the last character that is no whitespace
strip(s) ==
    LET I == {i \in 1..Len(s) : Ch(s, i) \notin Whitespace}
    IN  IF I = {} THEN ""
        ELSE SubSeq(s, CHOOSE i \in I : \A j \in I : i <= j,
                       CHOOSE i \in I : \A j \in I : j <= i)

StartsWith(s, p) == Len(p) <= Len(s) /\ SubSeq(s, 1, Len(p)) = p

\* p in s
Contains(p, s) == \E i \in 0..(Len(s) - Len(p)) : SubSeq(s, i + 1, i + Len(p)) = p

\* number of consecutive characters of class cls in s from position i on
Run(s, i, cls) ==
    LET Stop == {k \in i..Len(s) : Ch(s, k) \notin cls}
    IN  IF i > Len(s) THEN 0
        ELSE IF Stop = {} THEN Len(s) - i + 1
        ELSE (CHOOSE k \in Stop : \A j \in Stop : k <= j) - i

\* str.split("\n")
RECURSIVE split_nl(_)
split_nl(s) ==
    LET n == Run(s, 1, {Ch(s, i) : i \in 1..Len(s)} \ {"\n"})
    IN  IF n = Len(s) THEN <<s>>
        ELSE <<SubSeq(s, 1, n)>> \o split_nl(From(s, n + 2))

\* str.splitlines(): as split, without the empty piece after a final line break
splitlines(s) ==
    LET p == split_nl(s)
    IN  IF p[Len(p)] = "" THEN SubSeq(p, 1, Len(p) - 1) ELSE p

DigitVal(c) == CHOOSE d \in 0..9 : Ch("0123456789", d + 1) = c

\* int(s) for a string of decimal digits
RECURSIVE int(_)
int(s) ==
    IF s = "" THEN 0
    ELSE 10 * int(SubSeq(s, 1, Len(s) - 1)) + DigitVal(Ch(s, Len(s)))

\* str(n) for n >= 0
RECURSIVE str(_)
str(n) ==
    IF n < 10 THEN Ch("0123456789", n + 1)
    ELSE str(n \div 10) \o Ch("0123456789", (n % 10) + 1)

\* re.match(r'^\d+$', s)
AllDigits(s) == s # "" /\ Run(s, 1, Digits) = Len(s)

\* re.sub(r'\s+', ' ', s)
RECURSIVE CollapseWs(_)
CollapseWs(s) ==
    LET n == Run(s, 1, {Ch(s, k) : k \in 1..Len(s)} \ Whitespace)
        w == Run(s, n + 1, Whitespace)
    IN  IF n = Len(s) THEN s
        ELSE SubSeq(s, 1, n) \o " " \o CollapseWs(From(s, n + w + 1))

\* s.replace(old, '') : leftmost occurrences, not overlapping
RECURSIVE Remove(_, _)
Remove(s, old) ==
    LET I == {i \in 1..(Len(s) - Len(old) + 1) : SubSeq(s, i, i + Len(old) - 1) = old}
        f == CHOOSE i \in I : \A j \in I : i <= j
    IN  IF I = {} THEN s
        ELSE SubSeq(s, 1, f - 1) \o Remove(From(s, f + Len(old)), old)

-----------------------------------------------------------------------------
(* parse_toc_lines *)

Ellipsis == "~"

LineWs == {" ", "\t"}

\* the tail of pattern 1 with \s* for \s+ before the dots
Tail1_OptionalWs(t) ==
    LET w  == Run(t, 1, LineWs)
        d  == Run(t, w + 1, {"."})
        w2 == Run(t, w + d + 1, LineWs)
        g1 == Run(t, w + d + w2 + 1, Digits)
        g2 == Run(t, w + 1, Digits)
    IN  IF d >= 2 /\ g1 \in 1..4 /\ w + d + w2 + g1 = Len(t)
        THEN <<TRUE, From(t, w + d + w2 + 1)>>
        ELSE IF w >= 3 /\ g2 \in 1..4 /\ w + g2 = Len(t)
             THEN <<TRUE, From(t, w + 1)>>
             ELSE <<FALSE, "">>

\* the part of pattern 1 after the label:
\*   (?:\s+\.{2,}\s*|\s{3,})\b(\d{1,4})\b\s*$      on a stripped line
\* <<matched, digits>>
Tail1(t) ==
    LET w  == Run(t, 1, LineWs)
        d  == Run(t, w + 1, {"."})
        w2 == Run(t, w + d + 1, LineWs)
        g1 == Run(t, w + d + w2 + 1, Digits)
        g2 == Run(t, w + 1, Digits)
    IN  IF w >= 1 /\ d >= 2 /\ g1 \in 1..4 /\ w + d + w2 + g1 = Len(t)
        THEN <<TRUE, From(t, w + d + w2 + 1)>>
        ELSE IF w >= 3 /\ g2 \in 1..4 /\ w + g2 = Len(t)
             THEN <<TRUE, From(t, w + 1)>>
             ELSE <<FALSE, "">>

\* the part of pattern 2 after the label:   \s+(\d{1,4})\s*$
Tail2(t) ==
    LET w == Run(t, 1, LineWs)
        g == Run(t, w + 1, Digits)
    IN  IF w >= 1 /\ g \in 1..4 /\ w + g = Len(t)
        THEN <<TRUE, From(t, w + 1)>>
        ELSE <<FALSE, "">>

\* re.search(r"(.+?)<tail>", line): the lazy label is the shortest non-empty
\* prefix after which the tail matches.  <<matched, group 1, group 2>>
Search1(line) ==
    LET E == {e \in 1..(Len(line) - 1) : Tail1(From(line, e + 1))[1]}
    IN  IF E = {} THEN <<FALSE, "", "">>
        ELSE LET e == CHOOSE x \in E : \A y \in E : x <= y
             IN  <<TRUE, SubSeq(line, 1, e), Tail1(From(line, e + 1))[2]>>

Search2(line) ==
    LET E == {e \in 1..(Len(line) - 1) : Tail2(From(line, e + 1))[1]}
    IN  IF E = {} THEN <<FALSE, "", "">>
        ELSE LET e == CHOOSE x \in E : \A y \in E : x <= y
             IN  <<TRUE, SubSeq(line, 1, e), Tail2(From(line, e + 1))[2]>>

\* Candidate without its third rule (the page number on the next line)
Candidate_NoNextLine(lines, i) ==
    LET line == strip(lines[i])
        m1   == Search1(line)
        m2   == Search2(line)
    IN  IF line = "" THEN <<FALSE, "", 0>>
        ELSE IF m1[1] THEN <<TRUE, strip(m1[2]), int(m1[3])>>
        ELSE IF m2[1] THEN <<TRUE, strip(m2[2]), int(m2[3])>>
        ELSE <<FALSE, "", 0>>

\* lines 82-99: the (label, page) candidate of line i, or <<FALSE, ...>>
Candidate(lines, i) ==
    LET line == strip(lines[i])
        m1   == Search1(line)
        m2   == Search2(line)
    IN  IF line = "" THEN <<FALSE, "", 0>>
        ELSE IF m1[1] THEN <<TRUE, strip(m1[2]), int(m1[3])>>
        ELSE IF m2[1] THEN <<TRUE, strip(m2[2]), int(m2[3])>>
        ELSE IF i + 1 <= Len(lines) /\ AllDigits(strip(lines[i + 1]))
             THEN <<TRUE, line, int(strip(lines[i + 1]))>>
             ELSE <<FALSE, "", 0>>

\* lines 101-103
CleanLabel(label) == strip(Remove(Remove(CollapseWs(label), ".."), Ellipsis))

generic_terms == {"introduction", "overview", "summary", "conclusion", "appendix"}

specific_terms ==
    {"style", "criteria", "context", "theme", "evaluation", "greek", "gothic",
     "victorian"}

\* ObviouslyWrong without the page == 0 test
ObviouslyWrong_KeepsPageZero(label, page) ==
    \/ Len(label) < 3
    \/ Contains("table of contents", lower(label))
    \/ "contents" = lower(label)
    \/ StartsWith(lower(label), "page ")
    \/ AllDigits(strip(label))

\* lines 106-110
ObviouslyWrong(label, page) ==
    \/ page = 0
    \/ Len(label) < 3
    \/ Contains("table of contents", lower(label))
    \/ "contents" = lower(label)
    \/ StartsWith(lower(label), "page ")
    \/ AllDigits(strip(label))

\* lines 114-118
TooGeneric(label) ==
    /\ \E term \in generic_terms : Contains(term, lower(label))
    /\ ~ \E term \in specific_terms : Contains(term, lower(label))

RECURSIVE ParseFrom(_, _)
ParseFrom(lines, i) ==
    IF i > Len(lines) THEN <<>>
    ELSE LET c     == Candidate(lines, i)
             label == CleanLabel(c[2])
         IN  IF c[1] /\ ~ObviouslyWrong(label, c[3]) /\ ~TooGeneric(label)
             THEN <<<<label, c[3]>>>> \o ParseFrom(lines, i + 1)
             ELSE ParseFrom(lines, i + 1)

parse_toc_lines(t) == ParseFrom(splitlines(t), 1)

-----------------------------------------------------------------------------
(* scan_headings *)

\* LABEL_PATTERNS, lowercased (the scan is case-insensitive).  A "line" pattern
\* is  <prefix>\s*.+  and a "name" pattern is  <name>\b ; an optional
\* character of the pattern gives one literal per reading.
LinePat(v) == [kind |-> "line", lits |-> v]

NamePat(v) == [kind |-> "name", lits |-> v]

LABEL_PATTERNS ==
    << LinePat({"evaluation criteria:"}),
       LinePat({"evaluative frameworks:", "evaluative framework:"}),
       LinePat({"evaluative criteria:"}),
       LinePat({"style:"}),
       LinePat({"sub-style:", "sub style:", "substyle:"}),
       LinePat({"theme:"}),
       LinePat({"sub-theme:", "sub theme:", "subtheme:"}),
       LinePat({"sub-theme:", "sub theme:", "subtheme:"}),
       LinePat({"historic context:"}),
       LinePat({"historical context:"}),
       LinePat({"context statement:"}),
       LinePat({"property type:"}),
       LinePat({"building type:"}),
       LinePat({"resource type:"}),
       LinePat({"period of significance:"}),
       LinePat({"time period:"}),
       LinePat({"era:"}),
       NamePat({"gothic revival"}),
       NamePat({"art deco"}),
       NamePat({"streamline moderne"}),
       NamePat({"international style"}),
       NamePat({"queen anne"}),
       NamePat({"italianate"}),
       NamePat({"second empire"}),
       NamePat({"stick/eastlake", "stick\\eastlake", "stickeastlake"}),
       NamePat({"folk victorian"}),
       NamePat({"greek revival"}),
       NamePat({"neoclassical"}),
       NamePat({"colonial revival"}),
       NamePat({"tudor revival"}),
       NamePat({"spanish colonial revival"}),
       NamePat({"mission revival"}),
       NamePat({"craftsman"}),
       NamePat({"bungalow"}),
       NamePat({"prairie school"}),
       NamePat({"art moderne"}),
       NamePat({"moderne"}),
       NamePat({"bauhaus"}),
       NamePat({"mid-century modern", "mid century modern", "midcentury modern"}),
       NamePat({"brutalist"}),
       NamePat({"new formalism"}),
       NamePat({"postmodern"}) >>

\* the literals of pat that the lowercased text lt carries at position i
LitsAt(pat, lt, i) ==
    {v \in pat.lits : i + Len(v) - 1 <= Len(lt) /\ SubSeq(lt, i, i + Len(v) - 1) = v}

NotNewline(t) == {Ch(t, k) : k \in 1..Len(t)} \ {"\n"}

\* end of the match of  <lit>\s*.+  that starts at i with literal v, 0 if none:
\* \s* takes the whole whitespace run unless the text ends there, and then
\* gives back up to a character that is no line break; .+ runs to the end
\* of that line
LineEnd(t, i, v) ==
    LET j  == i + Len(v)
        w  == Run(t, j, Whitespace)
        K  == {k \in 0..(w - 1) : Ch(t, j + k) # "\n"}
        q  == IF j + w <= Len(t) THEN j + w
              ELSE IF K = {} THEN 0
              ELSE j + (CHOOSE k \in K : \A y \in K : y <= k)
    IN  IF q = 0 THEN 0 ELSE q + Run(t, q, NotNewline(t)) - 1

\* end of the match of  <lit>\b  that starts at i with literal v, 0 if none
NameEnd(t, i, v) ==
    LET e == i + Len(v) - 1
    IN  IF e = Len(t) \/ Ch(t, e + 1) \notin WordChars THEN e ELSE 0

MatchEnd(pat, t, lt, i) ==
    LET L == LitsAt(pat, lt, i)
        E == {IF pat.kind = "line" THEN LineEnd(t, i, v) ELSE NameEnd(t, i, v) : v \in L}
            \ {0}
    IN  IF E = {} THEN 0 ELSE CHOOSE e \in E : TRUE

\* re.finditer(pat, text, flags=re.I): the matched texts, left to right
RECURSIVE FindIter(_, _, _, _)
FindIter(pat, t, lt, i) ==
    LET M == {j \in i..Len(t) : MatchEnd(pat, t, lt, j) # 0}
        f == CHOOSE j \in M : \A k \in M : j <= k
    IN  IF M = {} THEN <<>>
        ELSE <<SubSeq(t, f, MatchEnd(pat, t, lt, f))>>
             \o FindIter(pat, t, lt, MatchEnd(pat, t, lt, f) + 1)

short_style_names == {"Art Deco", "Moderne", "Bauhaus"}

\* lines 128-134: the label of one match, or "" when the match is dropped
HeadingLabel(m) ==
    LET label == CollapseWs(strip(m))
    IN  IF Len(label) < 8 /\ ~ \E style \in short_style_names : Contains(style, label)
        THEN ""
        ELSE label

RECURSIVE Labels(_)
Labels(ms) ==
    IF ms = <<>> THEN <<>>
    ELSE (IF HeadingLabel(Head(ms)) = "" THEN <<>> ELSE <<HeadingLabel(Head(ms))>>)
         \o Labels(Tail(ms))

RECURSIVE ScanPatterns(_, _, _)
ScanPatterns(t, lt, k) ==
    IF k > Len(LABEL_PATTERNS) THEN <<>>
    ELSE Labels(FindIter(LABEL_PATTERNS[k], t, lt, 1)) \o ScanPatterns(t, lt, k + 1)

\* the labels scan_headings finds in a page text, in the order it appends them
HeadingLabels(t) == ScanPatterns(t, lower(t), 1)

scan_headings(page_num, t) ==
    LET ls == HeadingLabels(t) IN [k \in 1..Len(ls) |-> <<ls[k], page_num>>]

-----------------------------------------------------------------------------
(* Documents: what fitz.open gives.  A page is its text; Unreadable is a page *)
(* whose get_text raises.                                                  *)

Unreadable == "<get_text raises>"

\* len(doc)
PageCount(doc) == Len(doc.pages)

\* lines 137-144; page_num is 0-based
extract_pdf_text_safely(doc, page_num) ==
    IF doc.pages[page_num + 1] = Unreadable THEN "" ELSE doc.pages[page_num + 1]

Min(a, b) == IF a <= b THEN a ELSE b

\* range(n) as a sequence: 0, 1, ..., n-1
Range(n) == [k \in 1..n |-> k - 1]

\* the members of a set of numbers in ascending order
AscSeq(S) ==
    [k \in 1..Cardinality(S) |-> CHOOSE x \in S : Cardinality({y \in S : y < x}) = k - 1]

RECURSIVE SelectSeq0(_, _)
\* the members of the sequence of page numbers ps that are in the set keep
SelectSeq0(ps, keep) ==
    IF ps = <<>> THEN <<>>
    ELSE (IF Head(ps) \in keep THEN <<Head(ps)>> ELSE <<>>) \o SelectSeq0(Tail(ps), keep)

-----------------------------------------------------------------------------
(* find_toc_pages *)

toc_indicators ==
    {"table of contents", "contents", "index", "evaluation criteria:", "theme:",
     "style:", "page", "chapter"}

\* text.count('.')
DotCount(t) == Cardinality({k \in 1..Len(t) : Ch(t, k) = "."})

\* the most dots a page may have without counting as a ToC page (line 167)
DotLimit == 20

\* the dot test with >= for >
IsTocPage_AtLeast(t) ==
    LET text_lower == lower(t)
    IN  /\ t # ""
        /\ \/ \E indicator \in toc_indicators : Contains(indicator, text_lower)
           \/ DotCount(t) >= DotLimit

\* lines 152-167
IsTocPage(t) ==
    LET text_lower == lower(t)
    IN  /\ t # ""
        /\ \/ \E indicator \in toc_indicators : Contains(indicator, text_lower)
           \/ DotCount(t) > DotLimit

\* max_pages of find_toc_pages (line 146)
TocSearchPages == 10

\* the pages taken when no page looks like a table of contents (line 170)
TocDefaultPages == 7

\* lines 146-170
find_toc_pages(doc) ==
    LET found ==
            SelectSeq0(Range(Min(TocSearchPages, PageCount(doc))),
                       {p \in 0..(PageCount(doc) - 1) :
                            IsTocPage(extract_pdf_text_safely(doc, p))})
    IN  IF found # <<>> THEN found
        ELSE Range(Min(TocDefaultPages, PageCount(doc)))

-----------------------------------------------------------------------------
(* is_bio_document, parse_bio_document *)

\* line 174
is_bio_document(filename) == Contains("bios_", lower(filename))

\* re.match(r'^[A-Z][a-z]+, [A-Z]', line)
NameForm(line) ==
    LET n == Run(line, 2, LowerSet)
    IN  /\ line # ""
        /\ Ch(line, 1) \in UpperSet
        /\ n >= 1
        /\ n + 4 <= Len(line)
        /\ SubSeq(line, n + 2, n + 3) = ", "
        /\ Ch(line, n + 4) \in UpperSet

\* line.split(',')[0]
BeforeComma(line) == SubSeq(line, 1, Run(line, 1, {Ch(line, k) : k \in 1..Len(line)} \ {","}))

\* a capitalised word [A-Z][a-z]+ starts at i: the number of its characters, or 0
CapWord(line, i) ==
    IF i <= Len(line) /\ Ch(line, i) \in UpperSet /\ Run(line, i + 1, LowerSet) >= 1
    THEN 1 + Run(line, i + 1, LowerSet)
    ELSE 0

\* re.search(r'[A-Z][a-z]+\s+\+\s+[A-Z][a-z]+', line)
FirmForm(line) ==
    \E i \in 1..Len(line) :
        LET a  == CapWord(line, i)
            w1 == Run(line, i + a, Whitespace)
            w2 == Run(line, i + a + w1 + 1, Whitespace)
        IN  /\ a >= 2
            /\ w1 >= 1
            /\ i + a + w1 <= Len(line)
            /\ Ch(line, i + a + w1) = "+"
            /\ w2 >= 1
            /\ CapWord(line, i + a + w1 + 1 + w2) >= 2

\* the chain without the tests of lines 202 and 212
BioLineKept_NoMinimum(raw) ==
    LET line == strip(raw)
    IN  IF line = "" \/ Len(line) < 3 THEN FALSE
        ELSE IF NameForm(line) THEN TRUE
        ELSE IF StartsWith(line, "See also:") /\ Len(line) > 10 THEN TRUE
        ELSE IF FirmForm(line)
             THEN Len(line) > 5 /\ ~StartsWith(line, "See also:")
        ELSE FALSE

\* lines 189-222: whether the line of a page becomes a section
BioLineKept(raw) ==
    LET line == strip(raw)
    IN  IF line = "" \/ Len(line) < 3 THEN FALSE
        ELSE IF NameForm(line) THEN Len(strip(BeforeComma(line))) > 2
        ELSE IF StartsWith(line, "See also:") /\ Len(line) > 10
             THEN LET names_part == strip(From(line, 11))
                  IN  names_part # "" /\ Len(names_part) > 3
        ELSE IF FirmForm(line)
             THEN Len(line) > 5 /\ ~StartsWith(line, "See also:")
        ELSE FALSE

\* the rules of lines 199, 210 and 220, each with its own test
NameRule(line) == NameForm(line) /\ Len(strip(BeforeComma(line))) > 2

SeeAlsoRule(line) ==
    /\ StartsWith(line, "See also:")
    /\ Len(line) > 10
    /\ Len(strip(From(line, 11))) > 3

FirmRule(line) == FirmForm(line) /\ Len(line) > 5 /\ ~StartsWith(line, "See also:")

\* the three rules as separate if statements: one section for each rule met
RECURSIVE BioLines_Independent(_, _)
BioLines_Independent(lines, start) ==
    IF lines = <<>> THEN <<>>
    ELSE LET line == strip(Head(lines))
             one  == <<[label |-> line, start |-> start]>>
         IN  IF line = "" \/ Len(line) < 3 THEN BioLines_Independent(Tail(lines), start)
             ELSE (IF NameRule(line) THEN one ELSE <<>>)
                  \o (IF SeeAlsoRule(line) THEN one ELSE <<>>)
                  \o (IF FirmRule(line) THEN one ELSE <<>>)
                  \o BioLines_Independent(Tail(lines), start)

RECURSIVE BioLines(_, _)
BioLines(lines, start) ==
    IF lines = <<>> THEN <<>>
    ELSE (IF BioLineKept(Head(lines))
          THEN <<[label |-> strip(Head(lines)), start |-> start]>>
          ELSE <<>>) \o BioLines(Tail(lines), start)

\* lines 182-222 for one page
BioPage(doc, page_num) ==
    LET t == extract_pdf_text_safely(doc, page_num)
    IN  IF t = "" THEN <<>> ELSE BioLines(split_nl(t), page_num + 1)

RECURSIVE BioPages(_, _)
BioPages(doc, ps) ==
    IF ps = <<>> THEN <<>>
    ELSE BioPage(doc, Head(ps)) \o BioPages(doc, Tail(ps))

\* lines 176-224: every page, in page order (a page without text adds nothing)
parse_bio_document(doc) ==
    BioPages(doc, AscSeq({p \in 0..(PageCount(doc) - 1) :
                             extract_pdf_text_safely(doc, p) # ""}))

-----------------------------------------------------------------------------
(* build_manifest *)

\* sorted(s, key=...): keys[i] is the key of s[i]; the order is stable
sorted(s, keys) ==
    LET rank(i) ==
            1 + Cardinality({j \in 1..Len(s) :
                                \/ keys[j] < keys[i]
                                \/ keys[j] = keys[i] /\ j < i})
    IN  [k \in 1..Len(s) |-> s[CHOOSE i \in 1..Len(s) : rank(i) = k]]

\* line 269: sorted(toc_hits, key=lambda x: x[1])
SortHitsByPage(hits) == sorted(hits, [i \in 1..Len(hits) |-> hits[i][2]])

\* the final sort with the order reversed
SortSectionsByStart_Descending(secs) ==
    sorted(secs, [i \in 1..Len(secs) |-> 0 - secs[i].start])

\* line 315: sorted(sections, key=lambda s: s["start"])
SortSectionsByStart(secs) == sorted(secs, [i \in 1..Len(secs) |-> secs[i].start])

\* the set is kept from the use before
NewSeen_Stale(prev) == prev

\* lines 268 and 291: seen = set()
NewSeen(prev) == {}

\* lines 270 and 303
DedupKey(label, start) == <<lower(strip(label)), start>>

\* lines 269-274 and 302-307: append the hits not seen yet; acc is
\* [secs |-> sections, seen |-> seen]
RECURSIVE AddHits(_, _)
AddHits(hits, acc) ==
    IF hits = <<>> THEN acc
    ELSE LET key == DedupKey(Head(hits)[1], Head(hits)[2])
         IN  IF key \in acc.seen THEN AddHits(Tail(hits), acc)
             ELSE AddHits(Tail(hits),
                          [secs |-> Append(acc.secs, [label |-> Head(hits)[1],
                                                      start |-> Head(hits)[2]]),
                           seen |-> acc.seen \cup {key}])

\* lines 258-262: the pages of toc_pages with a text, and their hits
PagesWithText(doc, ps) ==
    SelectSeq0(ps, {p \in 0..(PageCount(doc) - 1) : extract_pdf_text_safely(doc, p) # ""})

RECURSIVE TocHits(_, _)
TocHits(doc, ps) ==
    IF ps = <<>> THEN <<>>
    ELSE parse_toc_lines(extract_pdf_text_safely(doc, Head(ps))) \o TocHits(doc, Tail(ps))

\* the bio sections are added to the ToC sections
BioOverride_Merge(secs, bio_sections) == secs \o bio_sections

\* lines 282-286
BioOverride(secs, bio_sections) == IF bio_sections # <<>> THEN bio_sections ELSE secs

\* the most pages the heading scan reads (line 294)
MaxScanPages == 200

\* the scan without its cap
max_scan_pages_NoCap(doc) == PageCount(doc)

\* line 294
max_scan_pages(doc) == Min(PageCount(doc), MaxScanPages)

\* lines 296-301: the pages the scan reads that have a text, in page order
ScanPages(doc) ==
    AscSeq({p \in 0..(max_scan_pages(doc) - 1) : extract_pdf_text_safely(doc, p) # ""})

\* line 302: the hits of those pages, in page order
RECURSIVE HitsOfPages(_, _)
HitsOfPages(doc, ps) ==
    IF ps = <<>> THEN <<>>
    ELSE scan_headings(Head(ps) + 1, extract_pdf_text_safely(doc, Head(ps)))
         \o HitsOfPages(doc, Tail(ps))

ScanHits(doc) == HitsOfPages(doc, ScanPages(doc))

\* os.path.splitext(filename)[0] of a name that glob("*.pdf") matched
Title(filename) == SubSeq(filename, 1, Len(filename) - 4)

EmptyManifest == <<>>

\* manifest[filename] = entry
Put(m, filename, entry) ==
    [f \in DOMAIN m \cup {filename} |-> IF f = filename THEN entry ELSE m[f]]

-----------------------------------------------------------------------------
(* sections.py: search_all_sections.  Scores are kept in tenths: 10.0 is 100 *)

\* lines 38-66: the dict as its items(), in order
style_patterns ==
    << <<"greek", "greek revival">>,
       <<"gothic", "gothic revival">>,
       <<"art deco", "art deco">>,
       <<"streamline", "streamline moderne">>,
       <<"international", "international style">>,
       <<"queen anne", "queen anne">>,
       <<"italianate", "italianate">>,
       <<"second empire", "second empire">>,
       <<"stick", "stick/eastlake">>,
       <<"eastlake", "stick/eastlake">>,
       <<"folk victorian", "folk victorian">>,
       <<"neoclassical", "neoclassical">>,
       <<"colonial", "colonial revival">>,
       <<"tudor", "tudor revival">>,
       <<"spanish", "spanish colonial revival">>,
       <<"mission", "mission revival">>,
       <<"craftsman", "craftsman">>,
       <<"bungalow", "bungalow">>,
       <<"prairie", "prairie school">>,
       <<"art moderne", "art moderne">>,
       <<"moderne", "art moderne">>,
       <<"bauhaus", "bauhaus">>,
       <<"mid century", "mid-century modern">>,
       <<"mid-century", "mid-century modern">>,
       <<"brutalist", "brutalist">>,
       <<"new formalism", "new formalism">>,
       <<"postmodern", "postmodern">> >>

\* lines 69-105: the dict as its items(), in order.  The literal writes the
\* keys 'mclaren' and 'donald mclaren' twice (lines 91 and 103, 93 and 104):
\* such a key keeps the place of its first pair and the value of its last
architect_names ==
    << <<"anderson", "Anderson">>,
       <<"christian", "Christian">>,
       <<"christian anderson", "Christian Anderson">>,
       <<"anderson christian", "Christian Anderson">>,
       <<"denck", "Denck">>,
       <<"edmund", "Edmund">>,
       <<"edmund denck", "Edmund Denck">>,
       <<"denck edmund", "Edmund Denck">>,
       <<"august", "August">>,
       <<"august denck", "August Denck">>,
       <<"denck august", "August Denck">>,
       <<"daniels", "Daniels">>,
       <<"dillman", "Dillman">>,
       <<"daniels dillman", "Daniels & Dillman">>,
       <<"dillman daniels", "Daniels & Dillman">>,
       <<"osmont", "Osmont">>,
       <<"daniels osmont", "Daniels & Osmont">>,
       <<"osmont daniels", "Daniels & Osmont">>,
       <<"wilhelm", "Wilhelm">>,
       <<"daniels wilhelm", "Daniels & Wilhelm">>,
       <<"wilhelm daniels", "Daniels & Wilhelm">>,
       <<"mclaren", "McDougall">>,
       <<"donald", "Donald">>,
       <<"donald mclaren", "Donald McDougall">>,
       <<"mclaren donald", "Donald McLaren">>,
       <<"mc dougall", "McDougall">>,
       <<"mcdougall", "McDougall">>,
       <<"barnett", "Barnett">>,
       <<"barnett mc dougall", "Barnett McDougall">>,
       <<"mc dougall barnett", "Barnett McDougall">>,
       <<"marquis", "Marquis">>,
       <<"mc dougall marquis", "McDougall & Marquis">>,
       <<"marquis mc dougall", "McDougall & Marquis">> >>

\* the value of the longest key found in the query
FirstPattern_Longest(dict, query_lower, default) ==
    LET I == {i \in 1..Len(dict) : Contains(dict[i][1], query_lower)}
    IN  IF I = {} THEN default
        ELSE dict[CHOOSE i \in I : \A j \in I :
                     \/ Len(dict[i][1]) > Len(dict[j][1])
                     \/ Len(dict[i][1]) = Len(dict[j][1]) /\ i <= j][2]

\* lines 109-112 and 115-118: the value of the first key found in the query
FirstPattern(dict, query_lower, default) ==
    LET I == {i \in 1..Len(dict) : Contains(dict[i][1], query_lower)}
    IN  IF I = {} THEN default
        ELSE dict[CHOOSE i \in I : \A j \in I : i <= j][2]

\* lines 108-118
expanded_query(query_lower) ==
    FirstPattern(architect_names, query_lower,
                 FirstPattern(style_patterns, query_lower, query_lower))

\* str.split(): the pieces between runs of whitespace
RECURSIVE split(_)
split(s) ==
    LET t == strip(s)
        n == Run(t, 1, {Ch(t, k) : k \in 1..Len(t)} \ Whitespace)
    IN  IF t = "" THEN <<>>
        ELSE <<SubSeq(t, 1, n)>> \o split(From(t, n + 1))

\* line 128
FirstLineOf(label) == strip(split_nl(lower(label))[1])

\* the chain without its first branch
BaseScore_NoExact(query_lower, expanded, first_line) ==
    IF Contains(expanded, first_line) THEN 80
    ELSE IF Contains(query_lower, first_line) THEN 50
    ELSE 0

\* lines 125-147: the if/elif chain
BaseScore(query_lower, expanded, first_line) ==
    IF query_lower = first_line THEN 100
    ELSE IF Contains(expanded, first_line) THEN 80
    ELSE IF Contains(query_lower, first_line) THEN 50
    ELSE IF \E i \in 1..Len(style_patterns) :
                /\ Contains(style_patterns[i][1], query_lower)
                /\ Contains(style_patterns[i][1], first_line)
         THEN 30
    ELSE IF \E i \in 1..Len(architect_names) :
                /\ Contains(lower(architect_names[i][2]), query_lower)
                /\ Contains(lower(architect_names[i][2]), first_line)
         THEN 40
    ELSE IF LET parts == split(query_lower)
            IN  \E k \in 1..Len(parts) :
                    Len(parts[k]) > 2 /\ Contains(parts[k], first_line)
         THEN 20
    ELSE 0

\* longest label that is not penalised (line 158)
MaxLabelLen == 200

\* the penalty decided by the length of the first line
Adjust_FirstLineLength(doc_file, label, first_line) ==
    (IF Contains("evaluation criteria", first_line) THEN 20 ELSE 0)
    + (IF /\ Contains("bios_", lower(doc_file))
          /\ \E i \in 1..Len(architect_names) :
                Contains(architect_names[i][2], first_line)
       THEN 15 ELSE 0)
    - (IF Len(first_line) > MaxLabelLen THEN 10 ELSE 0)

\* lines 149-159: the boosts and the penalty
Adjust(doc_file, label, first_line) ==
    (IF Contains("evaluation criteria", first_line) THEN 20 ELSE 0)
    + (IF /\ Contains("bios_", lower(doc_file))
          /\ \E i \in 1..Len(architect_names) :
                Contains(architect_names[i][2], first_line)
       THEN 15 ELSE 0)
    - (IF Len(lower(label)) > MaxLabelLen THEN 10 ELSE 0)

\* lines 122-159: the score of one section for one query
Score(doc_file, label, query) ==
    LET query_lower == strip(lower(query))
        first_line  == FirstLineOf(label)
    IN  BaseScore(query_lower, expanded_query(query_lower), first_line)
        + Adjust(doc_file, label, first_line)

\* the lowest score that is returned (line 164)
MinScore == 30

\* the test without the threshold of line 164
Keep_Positive(score) == score > 0

\* the test with > for >=
Keep_Strict(score) == score > 0 /\ score > MinScore

\* lines 162-164
Keep(score) == score > 0 /\ score >= MinScore

\* data.get("sections", [])
SectionsOf(data) == IF "sections" \in DOMAIN data THEN data.sections ELSE <<>>

\* lines 121-171 for one document: the results its sections add
RECURSIVE SectionResults(_, _, _, _)
SectionResults(doc_file, data, secs, query) ==
    IF secs = <<>> THEN <<>>
    ELSE LET section == Head(secs)
             score   == Score(doc_file, section.label, query)
         IN  (IF Keep(score)
              THEN << [doc_file      |-> doc_file,
                       doc_title     |-> data.title,
                       section_label |-> section.label,
                       page          |-> section.start,
                       score         |-> score] >>
              ELSE <<>>)
             \o SectionResults(doc_file, data, Tail(secs), query)

\* lines 120-171: a manifest is the sequence of its items()
RECURSIVE AllResults(_, _)
AllResults(m, query) ==
    IF m = <<>> THEN <<>>
    ELSE SectionResults(Head(m)[1], Head(m)[2], SectionsOf(Head(m)[2]), query)
         \o AllResults(Tail(m), query)

\* line 174: sorted(results, key=lambda x: (-x["score"], x["page"])); a stable
\* sort by the second part of the key and then by the first
SortResults(res) ==
    LET by_page == sorted(res, [i \in 1..Len(res) |-> res[i].page])
    IN  sorted(by_page, [i \in 1..Len(by_page) |-> 0 - by_page[i].score])

\* lines 32-174
search_all_sections(m, query) == SortResults(AllResults(m, query))

\* None, and a value that is not None
None == <<>>

Some(x) == <<x>>

\* manifest.get(doc_file)
Get(m, doc_file) ==
    LET I == {k \in 1..Len(m) : m[k][1] = doc_file}
    IN  IF I = {} THEN None ELSE Some(m[CHOOSE k \in I : TRUE][2])

\* the comparison without .lower()
find_page_of_label_CaseSensitive(m, doc_file, label_substring) ==
    LET d == Get(m, doc_file)
    IN  IF d = None THEN None
        ELSE LET secs == SectionsOf(d[1])
                 I    == {i \in 1..Len(secs) : Contains(label_substring, secs[i].label)}
             IN  IF I = {} THEN None
                 ELSE Some(secs[CHOOSE i \in I : \A j \in I : i <= j].start)

\* lines 22-30
find_page_of_label(m, doc_file, label_substring) ==
    LET d == Get(m, doc_file)
    IN  IF d = None THEN None
        ELSE LET secs == SectionsOf(d[1])
                 I    == {i \in 1..Len(secs) :
                             Contains(lower(label_substring), lower(secs[i].label))}
             IN  IF I = {} THEN None
                 ELSE Some(secs[CHOOSE i \in I : \A j \in I : i <= j].start)

\* lines 15-19: the loop from section i on, with best so far
RECURSIVE NearestFrom(_, _, _, _)
NearestFrom(secs, i, page, best) ==
    IF i > Len(secs) THEN best
    ELSE IF secs[i].start <= page /\ (best = None \/ secs[i].start > best[1].start)
         THEN NearestFrom(secs, i + 1, page, Some(secs[i]))
         ELSE NearestFrom(secs, i + 1, page, best)

\* lines 9-20
nearest_section_for_page(m, doc_file, page) ==
    LET d == Get(m, doc_file)
    IN  IF d = None THEN None ELSE NearestFrom(SectionsOf(d[1]), 1, page, None)

-----------------------------------------------------------------------------
(* build_manifest.py: validate_manifest.  A manifest read from the file is  *)
(* the sequence of its items(); a dict is a record of the keys it has       *)

Has(dict, key) == key \in DOMAIN dict

\* lines 398-408: the loop over the sections; st is
\* [issues |-> ..., warnings |-> ..., prev_page |-> ...]
RECURSIVE CheckSections(_, _, _, _)
CheckSections(filename, secs, i, st) ==
    IF i > Len(secs) THEN st
    ELSE LET section == secs[i]
             a == IF ~Has(section, "label")
                  THEN Append(st.issues, <<filename, "missing 'label'", i - 1>>)
                  ELSE st.issues
             b == IF ~Has(section, "start")
                  THEN Append(a, <<filename, "missing 'start' page", i - 1>>)
                  ELSE a
             w == IF /\ Has(section, "start")
                     /\ section.start <= st.prev_page
                     /\ st.prev_page # 0
                  THEN Append(st.warnings, <<filename, "page is not after previous page", i - 1>>)
                  ELSE st.warnings
             p == IF Has(section, "start") THEN section.start ELSE st.prev_page
         IN  CheckSections(filename, secs, i + 1,
                           [issues |-> b, warnings |-> w, prev_page |-> p])

\* lines 411-413: no section has 'evaluation criteria' in its label
NoEvalSections(secs) ==
    \A i \in 1..Len(secs) :
        ~(Has(secs[i], "label") /\ Contains("evaluation criteria", lower(secs[i].label)))

\* the loop body with an empty section list counted as an issue
CheckDoc_EmptyIsIssue(filename, doc_data, st) ==
    LET a == IF ~Has(doc_data, "title")
             THEN Append(st.issues, <<filename, "missing 'title' field", 0>>)
             ELSE st.issues
    IN  IF ~Has(doc_data, "sections")
        THEN [st EXCEPT !.issues = Append(a, <<filename, "missing 'sections' field", 0>>)]
        ELSE IF doc_data.sections = <<>>
        THEN [st EXCEPT !.issues = Append(a, <<filename, "no sections found", 0>>)]
        ELSE LET c == CheckSections(filename, doc_data.sections, 1,
                                    [issues |-> a, warnings |-> st.warnings, prev_page |-> 0])
             IN  [issues   |-> c.issues,
                  warnings |-> IF NoEvalSections(doc_data.sections)
                               THEN Append(c.warnings, <<filename, "no 'Evaluation Criteria' sections found", 0>>)
                               ELSE c.warnings]

\* lines 383-413: the loop body for one document; st is
\* [issues |-> ..., warnings |-> ...]
CheckDoc(filename, doc_data, st) ==
    LET a == IF ~Has(doc_data, "title")
             THEN Append(st.issues, <<filename, "missing 'title' field", 0>>)
             ELSE st.issues
    IN  IF ~Has(doc_data, "sections")
        THEN [st EXCEPT !.issues = Append(a, <<filename, "missing 'sections' field", 0>>)]
        ELSE IF doc_data.sections = <<>>
        THEN [issues   |-> a,
              warnings |-> Append(st.warnings, <<filename, "no sections found", 0>>)]
        ELSE LET c == CheckSections(filename, doc_data.sections, 1,
                                    [issues |-> a, warnings |-> st.warnings, prev_page |-> 0])
             IN  [issues   |-> c.issues,
                  warnings |-> IF NoEvalSections(doc_data.sections)
                               THEN Append(c.warnings, <<filename, "no 'Evaluation Criteria' sections found", 0>>)
                               ELSE c.warnings]

RECURSIVE CheckDocs(_, _)
CheckDocs(m, st) ==
    IF m = <<>> THEN st
    ELSE CheckDocs(Tail(m), CheckDoc(Head(m)[1], Head(m)[2], st))

\* the result with the warnings counted like the issues
validate_manifest_WarningsFail(file) ==
    IF ~file.readable
    THEN [ok |-> FALSE, issues |-> <<>>, warnings |-> <<>>]
    ELSE IF file.data = <<>>
    THEN [ok |-> FALSE, issues |-> <<>>, warnings |-> <<>>]
    ELSE LET st == CheckDocs(file.data, [issues |-> <<>>, warnings |-> <<>>])
         IN  [ok       |-> st.issues = <<>> /\ st.warnings = <<>>,
              issues   |-> st.issues,
              warnings |-> st.warnings]

\* lines 365-427: file is [readable |-> json.load succeeds, data |-> manifest]
validate_manifest(file) ==
    IF ~file.readable
    THEN [ok |-> FALSE, issues |-> <<>>, warnings |-> <<>>]
    ELSE IF file.data = <<>>
    THEN [ok |-> FALSE, issues |-> <<>>, warnings |-> <<>>]
    ELSE LET st == CheckDocs(file.data, [issues |-> <<>>, warnings |-> <<>>])
         IN  [ok |-> st.issues = <<>>, issues |-> st.issues, warnings |-> st.warnings]

\* no call of search_all_sections yet
NoCall == [query |-> "", results |-> <<>>, made |-> FALSE]

IdleSearch ==
    /\ s_manifest = <<>>
    /\ answers = <<>>
    /\ last = NoCall
    /\ log = NoCall

IdleValidate ==
    /\ v_file = [readable |-> FALSE, data |-> <<>>]
    /\ v_pc = "off"
    /\ v_result = [ok |-> FALSE, issues |-> <<>>, warnings |-> <<>>]

IdleBio ==
    /\ bio_doc = [name |-> "", opens |-> FALSE, pages |-> <<>>]
    /\ bio_pc = "off"
    /\ bio_res = <<>>

-----------------------------------------------------------------------------
(* Specification SpecBuild: build_manifest, called MaxRuns times on a        *)
(* directory of up to MaxDocs documents                                     *)

MaxDocs == 2

MaxRuns == 2

T_toc == "Table of Contents\nGothic Revival .......... 30\nArt Deco 12\ngothic revival .... 30\n"

T_plain == "San Francisco\nPlanning Department"

T_nums == "Mission Revival 4\nCraftsman 2\nMission Revival 4"

T_heading == "Style: Gothic Revival\nSTYLE: GOTHIC REVIVAL\nArt Deco"

T_late == "Greek Revival\nBungalow court\ngreek revival"

T_bio == "Anderson, Christian\nSee also: Denck, Edmund\nAnshen + Allen\nAnderson, Christian\nArchitects 3"

\* 20 dots and 21 dots, without any indicator word
T_dots20 == "Craftsman .................... 2"

T_dots21 == "Mission Revival ..................... 4"

\* a document of n pages, blank except for the pages given in at
PagesOf(n, at) == [k \in 1..n |-> IF k \in DOMAIN at THEN at[k] ELSE ""]

Docs ==
    << [name |-> "gothic.pdf", opens |-> TRUE, pages |-> <<T_toc, T_plain>>],
       [name |-> "early.pdf", opens |-> TRUE, pages |-> <<T_nums, T_plain>>],
       [name |-> "late.pdf", opens |-> TRUE,
        pages |-> [k \in 1..(TocDefaultPages + 1) |->
                      IF k <= TocDefaultPages THEN T_plain ELSE T_nums]],
       [name |-> "blank.pdf", opens |-> TRUE, pages |-> <<"", T_nums, Unreadable>>],
       [name |-> "big.pdf", opens |-> TRUE,
        pages |-> PagesOf(MaxScanPages + 1,
                          (TocSearchPages + 2) :> T_heading
                          @@ MaxScanPages :> T_late
                          @@ (MaxScanPages + 1) :> T_late)],
       [name |-> "bios_a.pdf", opens |-> TRUE, pages |-> <<T_toc, T_bio>>],
       [name |-> "BIOS_b.pdf", opens |-> TRUE, pages |-> <<T_toc, T_plain>>],
       [name |-> "bios_c.pdf", opens |-> TRUE, pages |-> <<T_plain, T_late>>],
       [name |-> "empty.pdf", opens |-> TRUE, pages |-> <<T_plain, "", Unreadable>>],
       [name |-> "corrupt.pdf", opens |-> FALSE, pages |-> <<>>],
       [name |-> "torn.pdf", opens |-> TRUE, pages |-> <<Unreadable, T_nums>>],
       [name |-> "dots.pdf", opens |-> TRUE,
        pages |-> PagesOf(TocSearchPages + 1,
                          1 :> T_dots20 @@ 3 :> T_dots21
                          @@ (TocSearchPages + 1) :> T_toc)],
       [name |-> "dots20.pdf", opens |-> TRUE, pages |-> <<T_dots20, Unreadable, T_plain>>] >>

DocIds == 1..Len(Docs)

\* What the text functions return for the documents.  The documents do not
\* change while build_manifest runs, so this is computed once, in Init.
Library ==
    [ toc_pages   |-> [d \in DocIds |-> IF Docs[d].opens THEN find_toc_pages(Docs[d]) ELSE <<>>],
      toc_hits    |-> [d \in DocIds |->
                        IF Docs[d].opens
                        THEN TocHits(Docs[d], PagesWithText(Docs[d], find_toc_pages(Docs[d])))
                        ELSE <<>>],
      with_text   |-> [d \in DocIds |->
                        IF Docs[d].opens
                        THEN PagesWithText(Docs[d], find_toc_pages(Docs[d]))
                        ELSE <<>>],
      bio         |-> [d \in DocIds |-> parse_bio_document(Docs[d])],
      scan_hits   |-> [d \in DocIds |-> ScanHits(Docs[d])],
      scan_count  |-> [d \in DocIds |-> max_scan_pages(Docs[d])],
      is_bio      |-> [d \in DocIds |-> is_bio_document(Docs[d].name)] ]

\* the directory listings: up to MaxDocs different documents in any order
RECURSIVE Listings(_)
Listings(n) ==
    IF n = 0 THEN {<<>>}
    ELSE LET S == Listings(n - 1)
         IN  S \cup {Append(l, d) : l \in {x \in S : Len(x) = n - 1},
                                    d \in DocIds} 

Distinct(l) == \A i, j \in 1..Len(l) : i # j => l[i] # l[j]

NoFile == [exists |-> FALSE, data |-> EmptyManifest]

File(m) == [exists |-> TRUE, data |-> m]

\* the document the loop is at
CurId == pdf_files[idx]

Cur == Docs[CurId]

IdleToc ==
    /\ text = ""
    /\ lbl = ""
    /\ pg = 0
    /\ form = "idle"
    /\ toc_pc = "idle"
    /\ toc_out = <<>>

IdleBuild ==
    /\ pdf_files = <<>>
    /\ run = 0
    /\ b_pc = "off"
    /\ idx = 0
    /\ toc_pages = <<>>
    /\ toc_hits = <<>>
    /\ seen = {}
    /\ sections = <<>>
    /\ manifest = EmptyManifest
    /\ out_file = NoFile
    /\ result = "none"
    /\ parsed = {}
    /\ scanned = {}
    /\ scan_ran = FALSE
    /\ toc_secs = <<>>
    /\ bio_out = <<>>
    /\ origin = <<>>
    /\ first_out = NoFile
    /\ lib = <<>>

InitBuild ==
    /\ IdleToc
    /\ IdleSearch
    /\ IdleValidate
    /\ IdleBio
    /\ lib = Library
    /\ pdf_files \in {l \in Listings(MaxDocs) : Distinct(l)}
    /\ run = 0
    /\ b_pc = "idle"
    /\ idx = 0
    /\ toc_pages = <<>>
    /\ toc_hits = <<>>
    /\ seen = {}
    /\ sections = <<>>
    /\ manifest = EmptyManifest
    /\ out_file = NoFile
    /\ result = "none"
    /\ parsed = {}
    /\ scanned = {}
    /\ scan_ran = FALSE
    /\ toc_secs = <<>>
    /\ bio_out = <<>>
    /\ origin = <<>>
    /\ first_out = NoFile

\* without a PDF file an empty manifest is written and True returned
StartBuild_WritesEmpty ==
    /\ b_pc = "idle"
    /\ run < MaxRuns
    /\ IF pdf_files = <<>>
       THEN /\ result' = "True"
            /\ run' = run + 1
            /\ out_file' = File(EmptyManifest)
            /\ first_out' = IF run = 0 THEN out_file' ELSE first_out
            /\ UNCHANGED <<b_pc, idx, manifest, origin>>
       ELSE /\ manifest' = EmptyManifest
            /\ origin' = <<>>
            /\ idx' = 1
            /\ b_pc' = "open"
            /\ UNCHANGED <<result, run, first_out, out_file>>
    /\ UNCHANGED <<lib, pdf_files, toc_pages, toc_hits, seen, sections,
                   parsed, scanned, scan_ran, toc_secs, bio_out>>
    /\ UNCHANGED <<tocVars, searchVars, validateVars, bioVars>>

\* lines 235-243: no PDF file: return (None); else start the loop
StartBuild ==
    /\ b_pc = "idle"
    /\ run < MaxRuns
    /\ IF pdf_files = <<>>
       THEN /\ result' = "None"
            /\ run' = run + 1
            /\ first_out' = IF run = 0 THEN out_file ELSE first_out
            /\ UNCHANGED <<b_pc, idx, manifest, origin>>
       ELSE /\ manifest' = EmptyManifest
            /\ origin' = <<>>
            /\ idx' = 1
            /\ b_pc' = "open"
            /\ UNCHANGED <<result, run, first_out>>
    /\ UNCHANGED <<lib, pdf_files, toc_pages, toc_hits, seen, sections, out_file,
                   parsed, scanned, scan_ran, toc_secs, bio_out>>
    /\ UNCHANGED <<tocVars, searchVars, validateVars, bioVars>>

\* a file that cannot be opened ends the loop
OpenDoc_Abort ==
    /\ b_pc = "open"
    /\ idx <= Len(pdf_files)
    /\ IF Cur.opens
       THEN /\ sections' = <<>>
            /\ toc_pages' = lib.toc_pages[CurId]
            /\ toc_hits' = <<>>
            /\ parsed' = {}
            /\ scanned' = {}
            /\ scan_ran' = FALSE
            /\ toc_secs' = <<>>
            /\ bio_out' = <<>>
            /\ b_pc' = "toc"
            /\ UNCHANGED idx
       ELSE /\ idx' = Len(pdf_files) + 1
            /\ UNCHANGED <<sections, toc_pages, toc_hits, parsed, scanned,
                           scan_ran, toc_secs, bio_out, b_pc>>
    /\ UNCHANGED <<lib, pdf_files, run, seen, manifest, out_file, result, origin, first_out>>
    /\ UNCHANGED <<tocVars, searchVars, validateVars, bioVars>>

\* lines 245-257: the next file; fitz.open raises for a corrupt one, and the
\* except clause goes on with the file after it
OpenDoc ==
    /\ b_pc = "open"
    /\ idx <= Len(pdf_files)
    /\ IF Cur.opens
       THEN /\ sections' = <<>>
            /\ toc_pages' = lib.toc_pages[CurId]
            /\ toc_hits' = <<>>
            /\ parsed' = {}
            /\ scanned' = {}
            /\ scan_ran' = FALSE
            /\ toc_secs' = <<>>
            /\ bio_out' = <<>>
            /\ b_pc' = "toc"
            /\ UNCHANGED idx
       ELSE /\ idx' = idx + 1
            /\ UNCHANGED <<sections, toc_pages, toc_hits, parsed, scanned,
                           scan_ran, toc_secs, bio_out, b_pc>>
    /\ UNCHANGED <<lib, pdf_files, run, seen, manifest, out_file, result, origin, first_out>>
    /\ UNCHANGED <<tocVars, searchVars, validateVars, bioVars>>

\* lines 258-276
ParseTocPages ==
    /\ b_pc = "toc"
    /\ LET ps   == lib.with_text[CurId]
           hits == lib.toc_hits[CurId]
           acc  == AddHits(SortHitsByPage(hits), [secs |-> sections, seen |-> NewSeen(seen)])
       IN  /\ parsed' = {ps[k] : k \in 1..Len(ps)}
           /\ toc_hits' = hits
           /\ IF hits # <<>>
              THEN sections' = acc.secs /\ seen' = acc.seen
              ELSE UNCHANGED <<sections, seen>>
           /\ toc_secs' = sections'
    /\ b_pc' = "bio"
    /\ UNCHANGED <<lib, pdf_files, run, idx, toc_pages, manifest, out_file, result,
                   scanned, scan_ran, bio_out, origin, first_out>>
    /\ UNCHANGED <<tocVars, searchVars, validateVars, bioVars>>

\* lines 279-286
BioStep ==
    /\ b_pc = "bio"
    /\ IF lib.is_bio[CurId]
       THEN /\ bio_out' = lib.bio[CurId]
            /\ sections' = BioOverride(sections, bio_out')
       ELSE UNCHANGED <<bio_out, sections>>
    /\ b_pc' = "scan"
    /\ UNCHANGED <<lib, pdf_files, run, idx, toc_pages, toc_hits, seen, manifest,
                   out_file, result, parsed, scanned, scan_ran, toc_secs, origin,
                   first_out>>
    /\ UNCHANGED <<tocVars, searchVars, validateVars, bioVars>>

\* lines 289-309
HeadingScan ==
    /\ b_pc = "scan"
    /\ IF sections = <<>>
       THEN LET acc == AddHits(lib.scan_hits[CurId], [secs |-> sections, seen |-> NewSeen(seen)])
            IN  /\ sections' = acc.secs
                /\ seen' = acc.seen
                /\ scanned' = 0..(lib.scan_count[CurId] - 1)
                /\ scan_ran' = TRUE
       ELSE UNCHANGED <<sections, seen, scanned, scan_ran>>
    /\ b_pc' = "store"
    /\ UNCHANGED <<lib, pdf_files, run, idx, toc_pages, toc_hits, manifest, out_file,
                   result, parsed, toc_secs, bio_out, origin, first_out>>
    /\ UNCHANGED <<tocVars, searchVars, validateVars, bioVars>>

\* the strategy whose sections are in sections
Strategy ==
    IF scan_ran THEN "scan"
    ELSE IF lib.is_bio[CurId] /\ bio_out # <<>> THEN "bio"
    ELSE "toc"

\* the entry is stored whether or not a section was found
StoreEntry_Always ==
    /\ b_pc = "store"
    /\ manifest' =
          Put(manifest, Cur.name,
              [title |-> Title(Cur.name),
               sections |-> SortSectionsByStart(sections),
               total_pages |-> PageCount(Cur)])
    /\ origin' = Put(origin, Cur.name, Strategy)
    /\ b_pc' = "next"
    /\ UNCHANGED <<lib, pdf_files, run, idx, toc_pages, toc_hits, seen, sections,
                   out_file, result, parsed, scanned, scan_ran, toc_secs, bio_out,
                   first_out>>
    /\ UNCHANGED <<tocVars, searchVars, validateVars, bioVars>>

\* lines 312-322
StoreEntry ==
    /\ b_pc = "store"
    /\ IF sections # <<>>
       THEN /\ manifest' =
                Put(manifest, Cur.name,
                    [title |-> Title(Cur.name),
                     sections |-> SortSectionsByStart(sections),
                     total_pages |-> PageCount(Cur)])
            /\ origin' = Put(origin, Cur.name, Strategy)
       ELSE UNCHANGED <<manifest, origin>>
    /\ b_pc' = "next"
    /\ UNCHANGED <<lib, pdf_files, run, idx, toc_pages, toc_hits, seen, sections,
                   out_file, result, parsed, scanned, scan_ran, toc_secs, bio_out,
                   first_out>>
    /\ UNCHANGED <<tocVars, searchVars, validateVars, bioVars>>

\* line 245: on to the next file
NextDoc ==
    /\ b_pc = "next"
    /\ idx' = idx + 1
    /\ b_pc' = "open"
    /\ UNCHANGED <<lib, pdf_files, run, toc_pages, toc_hits, seen, sections, manifest,
                   out_file, result, parsed, scanned, scan_ran, toc_secs, bio_out,
                   origin, first_out>>
    /\ UNCHANGED <<tocVars, searchVars, validateVars, bioVars>>

\* lines 329-359: after the last file the manifest is written
WriteManifest ==
    /\ b_pc = "open"
    /\ idx > Len(pdf_files)
    /\ out_file' = File(manifest)
    /\ first_out' = IF run = 0 THEN out_file' ELSE first_out
    /\ result' = "True"
    /\ run' = run + 1
    /\ b_pc' = "idle"
    /\ UNCHANGED <<lib, pdf_files, idx, toc_pages, toc_hits, seen, sections, manifest,
                   parsed, scanned, scan_ran, toc_secs, bio_out, origin>>
    /\ UNCHANGED <<tocVars, searchVars, validateVars, bioVars>>

\* lines 450-461 of __main__: what the script does with the value
\* build_manifest returned (`if success:` ... else sys.exit(1))
ExitCode(success) == IF success = "True" THEN 0 ELSE 1

NextBuild ==
    \/ StartBuild
    \/ OpenDoc
    \/ ParseTocPages
    \/ BioStep
    \/ HeadingScan
    \/ StoreEntry
    \/ NextDoc
    \/ WriteManifest

SpecBuild == InitBuild /\ [][NextBuild]_vars

-----------------------------------------------------------------------------
(* Specification SpecToc: one call of parse_toc_lines on a bounded input *)

\* longest free text that is enumerated character by character
MaxLen == 4

TocAlphabet == {"a", "1", "0", " ", ".", "\n"}

RECURSIVE TextsUpTo(_)
TextsUpTo(n) ==
    IF n = 0 THEN {""}
    ELSE LET S == TextsUpTo(n - 1)
         IN  S \cup {s \o c : s \in {x \in S : Len(x) = n - 1}, c \in TocAlphabet}

FreeTexts == TextsUpTo(MaxLen)

TocLabels ==
    {"Evaluation Criteria: Gothic Revival", "Gothic Revival", "Art Deco", "abc",
     "ab", "Contents", "CONTENTS", "Table of Contents", "Page one", "page",
     "Introduction", "Introduction: Style", "Executive Summary",
     "Appendix A: Context", "A  B", "Theme:\tArt", "Art   Deco", " Stick",
     "Folk~Victorian", "Sect 2", "St. Mary", "a..b", "12", "Craftsman-Bungalow",
     "A .. B", "Art.~.Deco"}

TocPageNums == {0, 1, 9, 30, 999, 1000, 9999, 12345}

TocForms == {"dots", "space", "split", "tight", "tight8", "lead", "wide"}

TocLine(f, L, n) ==
    CASE f = "dots"  -> L \o " ........ " \o str(n)
      [] f = "space" -> L \o " " \o str(n)
      [] f = "split" -> L \o "\n" \o str(n)
      [] f = "tight"  -> L \o ".." \o str(n)
      [] f = "tight8" -> L \o "........" \o str(n)
      [] f = "lead"   -> L \o " .." \o str(n)
      [] f = "wide"   -> L \o "   " \o str(n)

TocSamples ==
    {"Table of Contents\nEvaluation Criteria: Gothic Revival .......... 30\nArt Deco 12\n",
     "Contents\nIntroduction 1\nTheme: Residential Architecture    12\nGothic Revival\n25\n",
     "Sub-Theme: Art Deco ................................ 18\nPage 3\n7 ..... 8\n",
     "Style:  Queen  Anne .. .. 14\nOverview of Context ... 2\n00\nab 5\n",
     "Gothic Revival 30\ngothic revival   30\nGothic Revival\n30\n40",
     "Chapter 1 ~~ 00\nSummary\n3\n\nItalianate\t\t....\t7",
     "A .. B 30\nStick ~ Eastlake 4\nSt... Mary 3"}

InitToc ==
    /\ IdleBuild
    /\ IdleSearch
    /\ IdleValidate
    /\ IdleBio
    /\ toc_pc = "ready"
    /\ toc_out = <<>>
    /\ \/ /\ form \in TocForms
          /\ lbl \in TocLabels
          /\ pg \in TocPageNums
          /\ text = TocLine(form, lbl, pg)
       \/ /\ form = "raw"
          /\ lbl = ""
          /\ pg = 0
          /\ text \in FreeTexts \cup TocSamples

ParseToc ==
    /\ toc_pc = "ready"
    /\ toc_out' = parse_toc_lines(text)
    /\ toc_pc' = "done"
    /\ UNCHANGED <<text, lbl, pg, form>>
    /\ UNCHANGED <<buildVars, searchVars, validateVars, bioVars>>

NextToc == ParseToc

SpecToc == InitToc /\ [][NextToc]_vars

-----------------------------------------------------------------------------------------------------------------------------------------------------
(* Specification SpecSearch: calls of search_all_sections on one manifest;   *)
(* the state keeps the last call and the call before it                      *)

RECURSIVE Repeat(_, _)
Repeat(s, n) ==
    IF n = 0 THEN ""
    ELSE IF n % 2 = 0 THEN LET h == Repeat(s, n \div 2) IN h \o h
    ELSE s \o Repeat(s, n - 1)

\* a label of more than MaxLabelLen characters
LongLabel == "Gothic Revival " \o Repeat("x", MaxLabelLen)

Sec(label, start) == [label |-> label, start |-> start]

D_gothic ==
    <<"gothic.pdf",
      [title |-> "gothic", total_pages |-> 40,
       sections |-> << Sec("Art Deco\nsecond line", 5),
                       Sec("Gothic Revival", 12),
                       Sec("Gothic Cottage", 12),
                       Sec("Evaluation Criteria: Gothic Revival", 30) >>]>>

D_bios ==
    <<"BIOS_a.pdf",
      [title |-> "BIOS_a", total_pages |-> 9,
       sections |-> << Sec("Anderson, Christian", 2),
                       Sec("See also: Denck, Edmund", 2),
                       Sec("Anderson, Christian", 2),
                       Sec("Evaluation Criteria", 1) >>]>>

D_long ==
    <<"long.pdf",
      [title |-> "long", total_pages |-> 12,
       sections |-> << Sec("Gothic Revival", 3),
                       Sec(LongLabel, 7),
                       Sec("Stick/Eastlake", 7) >>]>>

D_none == <<"none.pdf", [title |-> "none", total_pages |-> 1]>>

SearchManifests ==
    { <<>>,
      <<D_gothic>>,
      <<D_gothic, D_bios>>,
      <<D_bios, D_gothic>>,
      <<D_long, D_none>>,
      <<D_long, D_gothic, D_bios>> }

Queries ==
    { "Gothic Revival", "  GOTHIC revival ", "gothic", "othic r", "gothic style",
      "christian anderson", "Anderson, Christian", "criteria foo", "zzz", "",
      "eastlake", "art deco", LongLabel, "Evaluation Criteria", "also" }

\* search_all_sections reads nothing but its arguments: what it returns for
\* each query on a manifest is computed once, when the manifest is chosen
Answers(m) == [q \in Queries |-> search_all_sections(m, q)]

InitSearch ==
    /\ IdleToc
    /\ IdleBuild
    /\ IdleValidate
    /\ IdleBio
    /\ s_manifest \in SearchManifests
    /\ answers = Answers(s_manifest)
    /\ last = NoCall
    /\ log = NoCall

\* one call of search_all_sections
Search ==
    /\ \E q \in Queries :
          last' = [query |-> q, results |-> answers[q], made |-> TRUE]
    /\ log' = last
    /\ UNCHANGED <<s_manifest, answers>>
    /\ UNCHANGED <<tocVars, buildVars, validateVars, bioVars>>

NextSearch == Search

SpecSearch == InitSearch /\ [][NextSearch]_vars

-----------------------------------------------------------------------------
(* Specification SpecCalls: calls of search_all_sections, find_page_of_label *)
(* and nearest_section_for_page on one manifest, in any order; the state     *)
(* keeps the last call                                                       *)

\* a label of more than MaxLabelLen characters with a short first line
TallLabel == "Art Deco\n" \o Repeat("y", MaxLabelLen)

D_notes ==
    <<"notes.pdf",
      [title |-> "notes", total_pages |-> 20,
       sections |-> << Sec("Mid-Century Moderne", 9),
                       Sec(TallLabel, 4),
                       Sec("Evaluation Criteria\nGothic Revival", 4),
                       Sec("Denck, Edmund", 6),
                       Sec("Daniels & Osmont", 2) >>]>>

\* a biography document whose criteria heading names an architect
D_crit ==
    <<"bios_crit.pdf",
      [title |-> "bios_crit", total_pages |-> 5,
       sections |-> << Sec("Evaluation Criteria: Anderson", 3),
                       Sec("Index", 1) >>]>>

CallManifests ==
    SearchManifests \cup { <<D_notes>>, <<D_bios, D_notes>>, <<D_crit>> }

CallQueries ==
    Queries \cup { "mid-century moderne", "gothic anderson", "denck edmund",
                   "anderson", "second line", "osmont daniels", "moder",
                   "y", "revival of art", " \t " }

CallDocs == {"gothic.pdf", "BIOS_a.pdf", "notes.pdf", "none.pdf", "missing.pdf"}

CallSubs == {"", "a", "gothic", "GOTHIC", "Evaluation", "christian", "second", "zzz"}

CallPages == {0, 1, 2, 5, 12, 13, 99}

InitCalls ==
    /\ IdleToc
    /\ IdleBuild
    /\ IdleValidate
    /\ IdleBio
    /\ s_manifest \in CallManifests
    /\ answers = [q \in CallQueries |-> search_all_sections(s_manifest, q)]
    /\ last = NoCall
    /\ log = NoCall

\* a call of search_all_sections; expanded is its local expanded_query
SearchCall ==
    /\ \E q \in CallQueries :
          last' = [op       |-> "search_all_sections",
                   query    |-> q,
                   expanded |-> expanded_query(strip(lower(q))),
                   results  |-> answers[q],
                   made     |-> TRUE]
    /\ UNCHANGED <<s_manifest, answers, log>>
    /\ UNCHANGED <<tocVars, buildVars, validateVars, bioVars>>

\* a call of find_page_of_label
FindPageCall ==
    /\ \E d \in CallDocs, sub \in CallSubs :
          last' = [op              |-> "find_page_of_label",
                   doc_file        |-> d,
                   label_substring |-> sub,
                   result          |-> find_page_of_label(s_manifest, d, sub),
                   made            |-> TRUE]
    /\ UNCHANGED <<s_manifest, answers, log>>
    /\ UNCHANGED <<tocVars, buildVars, validateVars, bioVars>>

\* the call sorts the sections of the manifest it is given
NearestCall_SortsInPlace ==
    /\ \E d \in CallDocs, page \in CallPages :
          last' = [op       |-> "nearest_section_for_page",
                   doc_file |-> d,
                   page     |-> page,
                   result   |-> nearest_section_for_page(s_manifest, d, page),
                   made     |-> TRUE]
    /\ s_manifest' =
          [k \in 1..Len(s_manifest) |->
              IF "sections" \in DOMAIN s_manifest[k][2]
              THEN <<s_manifest[k][1],
                     [s_manifest[k][2] EXCEPT
                         !.sections = SortSectionsByStart(s_manifest[k][2].sections)]>>
              ELSE s_manifest[k]]
    /\ UNCHANGED <<answers, log>>
    /\ UNCHANGED <<tocVars, buildVars, validateVars, bioVars>>

\* a call of nearest_section_for_page
NearestCall ==
    /\ \E d \in CallDocs, page \in CallPages :
          last' = [op       |-> "nearest_section_for_page",
                   doc_file |-> d,
                   page     |-> page,
                   result   |-> nearest_section_for_page(s_manifest, d, page),
                   made     |-> TRUE]
    /\ UNCHANGED <<s_manifest, answers, log>>
    /\ UNCHANGED <<tocVars, buildVars, validateVars, bioVars>>

NextCalls ==
    \/ SearchCall
    \/ FindPageCall
    \/ NearestCall

SpecCalls == InitCalls /\ [][NextCalls]_vars

-----------------------------------------------------------------------------
(* Specification SpecBio: one call of parse_bio_document on a document of   *)
(* two pages, the second with up to MaxBioLines lines                        *)

MaxBioLines == 2

\* lines that meet none, one or two of the three rules, with and without
\* the length each rule asks for
BioLineSamples ==
    { "Anderson, Christian", "Li, Wei", "  Denck, Edmund ", "Li, Wei + Bo Chan",
      "See also: Bo", "See also: Denck", "See also:", "See also: Anshen + Allen",
      "Anshen + Allen", "Anshen, Bob + Carl Allen", "Architects 3", "ab", "" }

RECURSIVE BioTexts(_)
BioTexts(n) ==
    IF n = 0 THEN {""}
    ELSE LET S == BioTexts(n - 1)
         IN  S \cup BioLineSamples
               \cup {t \o "\n" \o l : t \in (S \ {""}), l \in BioLineSamples}

BioFirstPages == {Unreadable, "", "Anderson, Christian\nArchitects 3"}

InitBio ==
    /\ IdleToc
    /\ IdleBuild
    /\ IdleSearch
    /\ IdleValidate
    /\ bio_doc \in {[name |-> "bios_x.pdf", opens |-> TRUE, pages |-> <<f, t>>] :
                       f \in BioFirstPages, t \in BioTexts(MaxBioLines)}
    /\ bio_pc = "ready"
    /\ bio_res = <<>>

\* the call of parse_bio_document
ParseBio ==
    /\ bio_pc = "ready"
    /\ bio_res' = parse_bio_document(bio_doc)
    /\ bio_pc' = "done"
    /\ UNCHANGED bio_doc
    /\ UNCHANGED <<tocVars, buildVars, searchVars, validateVars>>

NextBio == ParseBio

SpecBio == InitBio /\ [][NextBio]_vars

-----
(* Specification SpecValidate: one call of validate_manifest on a manifest  *)
(* file whose entries have up to MaxSections sections                       *)

MaxSections == 2

SectionKinds ==
    { [label |-> "Evaluation Criteria: Gothic Revival", start |-> 3],
      [label |-> "Gothic Revival", start |-> 1],
      [label |-> "Art Deco"],
      [start |-> 2] }

RECURSIVE SectionLists(_)
SectionLists(n) ==
    IF n = 0 THEN {<<>>}
    ELSE LET S == SectionLists(n - 1)
         IN  S \cup {Append(l, k) : l \in {x \in S : Len(x) = n - 1}, k \in SectionKinds}

\* the entries: with or without 'title', with or without 'sections'
EntryKinds ==
    {[title |-> "T", total_pages |-> 9, sections |-> l] : l \in SectionLists(MaxSections)}
    \cup {[total_pages |-> 9, sections |-> l] : l \in SectionLists(MaxSections)}
    \cup {[title |-> "T", total_pages |-> 9], [total_pages |-> 9]}

ValidateManifests ==
    {<<>>}
    \cup {<< <<"a.pdf", e>> >> : e \in EntryKinds}
    \cup {<< <<"a.pdf", e>>, <<"b.pdf", f>> >> : e \in EntryKinds, f \in EntryKinds}

InitValidate ==
    /\ IdleToc
    /\ IdleBuild
    /\ IdleSearch
    /\ IdleBio
    /\ v_file \in {[readable |-> FALSE, data |-> <<>>]}
                  \cup {[readable |-> TRUE, data |-> m] : m \in ValidateManifests}
    /\ v_pc = "ready"
    /\ v_result = [ok |-> FALSE, issues |-> <<>>, warnings |-> <<>>]

Validate ==
    /\ v_pc = "ready"
    /\ v_result' = validate_manifest(v_file)
    /\ v_pc' = "done"
    /\ UNCHANGED v_file
    /\ UNCHANGED <<tocVars, buildVars, searchVars, bioVars>>

NextValidate == Validate

SpecValidate == InitValidate /\ [][NextValidate]_vars

-----------------------------------------------------------------------------
(* Claims about parse_toc_lines *)

HasGenericTerm(L) == \E term \in generic_terms : Contains(term, lower(L))

HasDomainKeyword(L) == \E term \in specific_terms : Contains(term, lower(L))

\* a label the filter rules keep: length >= 3, not numeric, not a contents or
\* page line, not generic, no digit and no dot inside
C1_ValidLabel(L) ==
    /\ Len(L) >= 3
    /\ ~AllDigits(L)
    /\ \A i \in 1..Len(L) : Ch(L, i) \notin Digits \cup {"."}
    /\ ~Contains("table of contents", lower(L))
    /\ lower(L) # "contents"
    /\ ~StartsWith(lower(L), "page ")
    /\ ~(HasGenericTerm(L) /\ ~HasDomainKeyword(L))

\* no leading or trailing whitespace, only single spaces inside, no ellipsis
C1_Normalised(L) ==
    /\ strip(L) = L
    /\ CollapseWs(L) = L
    /\ ~Contains(Ellipsis, L)

C1_Case ==
    /\ toc_pc = "done"
    /\ form \in {"dots", "space", "split"}
    /\ pg \in 1..9999
    /\ C1_ValidLabel(lbl)

\* C1 as stated: every label the filter rules keep, in each of the three
\* input forms, comes back as exactly the one pair (L, n).
C1_Original == C1_Case => toc_out = <<<<lbl, pg>>>>

\* C1 as amended: a label the filter rules keep that is also whitespace
\* normalised (no leading or trailing whitespace, single spaces only) and free
\* of the ellipsis character comes back, in each of the three input forms
\* 'L ........ n', 'L n' and L and n on adjacent lines, as exactly one pair (L, n).
C1_Theorem == C1_Case /\ C1_Normalised(lbl) => toc_out = <<<<lbl, pg>>>>

C1_Witness ==
    /\ C1_Case
    /\ C1_Normalised(lbl)
    /\ form = "split"
    /\ lbl = "Evaluation Criteria: Gothic Revival"
    /\ pg = 9999
    /\ toc_out = <<<<lbl, pg>>>>

\* C2: no pair returned by parse_toc_lines has page 0, a label shorter than
\* 3 characters, a label equal in any letter case to 'contents' or 'table of
\* contents', a label starting with 'page ', a purely numeric label, or a
\* label with a generic term and no domain keyword.
C2_Theorem ==
    toc_pc = "done" =>
        \A i \in 1..Len(toc_out) :
            LET l == toc_out[i][1]
                p == toc_out[i][2]
            IN  /\ p # 0
                /\ Len(l) >= 3
                /\ lower(l) \notin {"contents", "table of contents"}
                /\ ~StartsWith(l, "page ")
                /\ ~AllDigits(l)
                /\ ~(HasGenericTerm(l) /\ ~HasDomainKeyword(l))

\* a text with a contents line, a generic line and two lines that are kept
C2_Witness ==
    /\ toc_pc = "done"
    /\ StartsWith(text, "Contents\nIntroduction 1\n")
    /\ Len(toc_out) = 2
    /\ toc_out[2] = <<"Gothic Revival", 25>>

-----------------------------------------------------------------------------
(* Claims about build_manifest, checked under SpecBuild *)

\* the sections the manifest holds for a file; none when it has no entry
Stored(filename) ==
    IF filename \in DOMAIN manifest THEN manifest[filename].sections ELSE <<>>

IsSortedByStart(secs) ==
    \A i \in 1..(Len(secs) - 1) : secs[i].start <= secs[i + 1].start

NoDuplicates(secs) ==
    \A i, j \in 1..Len(secs) :
        i # j => DedupKey(secs[i].label, secs[i].start)
                 # DedupKey(secs[j].label, secs[j].start)

\* the loop has finished the steps for the document it is at
DocDone == b_pc = "next"

\* C3 as stated: a biography document's stored sections are exactly the
\* output of parse_bio_document, also when that output is empty.
C3_Original ==
    DocDone /\ lib.is_bio[CurId] => Stored(Cur.name) = lib.bio[CurId]

\* C3, amended: a biography document's stored sections are exactly the output
\* of parse_bio_document, whatever the ToC parsing returned, whenever that
\* output is not empty; when it is empty and ToC parsing found sections,
\* those ToC sections are kept.
C3_Theorem ==
    DocDone /\ lib.is_bio[CurId] =>
        /\ lib.bio[CurId] # <<>> => Stored(Cur.name) = lib.bio[CurId]
        /\ lib.bio[CurId] = <<>> /\ toc_secs # <<>> => Stored(Cur.name) = toc_secs

\* a biography document with ToC sections and name entries has been stored
C3_Witness ==
    /\ DocDone
    /\ lib.is_bio[CurId]
    /\ toc_secs # <<>>
    /\ lib.bio[CurId] # <<>>
    /\ Cur.name \in DOMAIN manifest

\* C4: in every entry of the manifest, ToC-derived, scan-derived or
\* biography-derived, no two sections have the same (lowercased trimmed
\* label, start page).
C4_Original ==
    \A f \in DOMAIN manifest : NoDuplicates(manifest[f].sections)

\* C5: in every entry of the manifest the sections are in non-decreasing
\* order of start page, whichever strategy produced them.
C5_Theorem ==
    /\ \A f \in DOMAIN manifest : IsSortedByStart(manifest[f].sections)
    /\ \A f \in DOMAIN out_file.data : IsSortedByStart(out_file.data[f].sections)

\* entries of two different strategies, each with more than one section, are in
\* the written manifest
C5_Witness ==
    /\ out_file.exists
    /\ \E f, g \in DOMAIN out_file.data :
          /\ f # g
          /\ origin[f] # origin[g]
          /\ Len(out_file.data[f].sections) > 1
          /\ Len(out_file.data[g].sections) > 1

\* C6: a second run of build_manifest on the same files writes the manifest
\* the first run wrote: the same keys, sections and total_pages.
C6_Theorem ==
    b_pc = "idle" /\ run >= 2 => out_file = first_out

\* two runs have written a manifest with an entry
C6_Witness ==
    /\ b_pc = "idle"
    /\ run >= 2
    /\ out_file.exists
    /\ first_out.exists
    /\ DOMAIN out_file.data # {}

\* the pages find_toc_pages looks at, and whether one of them is a ToC page
HasTocPage(doc) ==
    \E p \in 0..(Min(TocSearchPages, PageCount(doc)) - 1) :
        IsTocPage(extract_pdf_text_safely(doc, p))

\* C9: without a ToC page in the first 10 pages the ToC parser works on
\* exactly the first min(7, pageCount) pages; the heading scan runs only if
\* the sections are empty after ToC parsing and the biography step, reads
\* only pages 1..min(pageCount, 200), so that its sections start at 200 or
\* before, and never runs when ToC parsing produced a section.
C9_Theorem ==
    b_pc \in {"store", "next"} =>
        /\ ~HasTocPage(Cur) =>
              /\ toc_pages = Range(Min(TocDefaultPages, PageCount(Cur)))
              /\ parsed \subseteq 0..(Min(TocDefaultPages, PageCount(Cur)) - 1)
              /\ toc_hits = TocHits(Cur, toc_pages)
        /\ scan_ran => toc_secs = <<>> /\ (lib.is_bio[CurId] => bio_out = <<>>)
        /\ scan_ran =>
              /\ scanned = 0..(Min(PageCount(Cur), MaxScanPages) - 1)
              /\ \A i \in 1..Len(sections) : sections[i].start <= MaxScanPages
        /\ ~scan_ran => scanned = {}
        /\ toc_secs # <<>> => ~scan_ran

\* the heading scan has run on a document of more than 200 pages without a
\* ToC page and has found sections
C9_Witness ==
    /\ b_pc = "store"
    /\ ~HasTocPage(Cur)
    /\ PageCount(Cur) > MaxScanPages
    /\ Len(toc_pages) = TocDefaultPages
    /\ scan_ran
    /\ sections # <<>>

\* the documents of the listing
Listed == {pdf_files[i] : i \in 1..Len(pdf_files)}

\* some strategy finds a section in document d
Yields(d) ==
    /\ Docs[d].opens
    /\ \/ lib.toc_hits[d] # <<>>
       \/ lib.is_bio[d] /\ lib.bio[d] # <<>>
       \/ lib.scan_hits[d] # <<>>

\* an unreadable page is not parsed, every other ToC page with a text is,
\* and the heading scan goes over every page up to its cap
C11_Pages ==
    b_pc \in {"bio", "scan", "store", "next"} =>
        /\ \A k \in 1..Len(toc_pages) :
              /\ Cur.pages[toc_pages[k] + 1] = Unreadable => toc_pages[k] \notin parsed
              /\ Cur.pages[toc_pages[k] + 1] \notin {"", Unreadable}
                    => toc_pages[k] \in parsed
        /\ scan_ran /\ b_pc # "scan" =>
              scanned = 0..(Min(PageCount(Cur), MaxScanPages) - 1)

\* a run over a listing with files ends with the manifest written, with an
\* entry for exactly the listed documents that open and yield a section
C11_Docs ==
    b_pc = "idle" /\ run >= 1 /\ pdf_files # <<>> =>
        /\ result = "True"
        /\ out_file.exists
        /\ DOMAIN out_file.data = {Docs[d].name : d \in {x \in Listed : Yields(x)}}

\* within a run no step removes or changes an entry recorded before
C11_Step ==
    b_pc # "idle" =>
        \A f \in DOMAIN manifest : f \in DOMAIN manifest' /\ manifest'[f] = manifest[f]

\* C11: a page whose extraction raises counts as empty and the other pages
\* are still processed; a document that cannot be processed adds no entry,
\* leaves the entries of earlier documents as they are, every later document
\* is still processed, and the manifest is written at the end of the run.
C11_Theorem == [](C11_Pages /\ C11_Docs) /\ [][C11_Step]_vars

\* a run over a file that does not open and, after it, a document with an
\* unreadable page before the page its sections come from has written an
\* entry for that document
C11_Witness ==
    /\ b_pc = "idle"
    /\ run >= 1
    /\ Len(pdf_files) = 2
    /\ ~Docs[pdf_files[1]].opens
    /\ Docs[pdf_files[2]].pages[1] = Unreadable
    /\ Docs[pdf_files[2]].name \in DOMAIN out_file.data

\* C12: every entry of the manifest has a section list that is not empty (a
\* document without a section has no entry), and every section has a start
\* of 1 or more and a label that is not empty.
C12_Theorem ==
    /\ \A f \in DOMAIN manifest :
          /\ manifest[f].sections # <<>>
          /\ \A i \in 1..Len(manifest[f].sections) :
                manifest[f].sections[i].start >= 1 /\ manifest[f].sections[i].label # ""
    /\ \A f \in DOMAIN out_file.data :
          /\ out_file.data[f].sections # <<>>
          /\ \A i \in 1..Len(out_file.data[f].sections) :
                /\ out_file.data[f].sections[i].start >= 1
                /\ out_file.data[f].sections[i].label # ""
    /\ DocDone /\ sections = <<>> => Cur.name \notin DOMAIN manifest

\* the written manifest has an entry, and a listed document that opens and
\* yields no section has none
C12_Witness ==
    /\ b_pc = "idle"
    /\ out_file.exists
    /\ DOMAIN out_file.data # {}
    /\ \E d \in Listed :
          Docs[d].opens /\ ~Yields(d) /\ Docs[d].name \notin DOMAIN out_file.data

-----------------------------------------------------------------------------
(* Claims about search_all_sections, checked under SpecSearch *)

\* the sections of the manifest as <<doc_file, section>> pairs
ManifestSections(m) ==
    UNION {{<<m[k][1], SectionsOf(m[k][2])[i]>> : i \in 1..Len(SectionsOf(m[k][2]))} :
              k \in 1..Len(m)}

\* the places of a section in a result list
Places(res, ds) ==
    {i \in 1..Len(res) : /\ res[i].doc_file = ds[1]
                         /\ res[i].section_label = ds[2].label
                         /\ res[i].page = ds[2].start}

\* sub is a substring of s and is not s
ProperSubstring(sub, s) == sub # s /\ Contains(sub, s)

\* q1 equals the first line of the section's label, q2 is a proper substring
\* of it (both lowercased and trimmed)
C7_Case(q1, q2, ds) ==
    /\ strip(lower(q1)) = FirstLineOf(ds[2].label)
    /\ ProperSubstring(strip(lower(q2)), FirstLineOf(ds[2].label))

\* the section is in the results for q1, above every score it has for q2
C7_Above(call1, call2, ds) ==
    /\ Places(call1.results, ds) # {}
    /\ \A i \in Places(call1.results, ds) : \A j \in Places(call2.results, ds) :
          call1.results[i].score > call2.results[j].score

\* C7: a section scores strictly higher for a query equal to the first line
\* of its label (lowercased, trimmed) than for a query that is a proper
\* substring of that first line; a section left out of the results for the
\* substring has a score under 3.0, below that of any returned section.
C7_Theorem ==
    last.made /\ log.made =>
        \A ds \in ManifestSections(s_manifest) :
            /\ C7_Case(last.query, log.query, ds) => C7_Above(last, log, ds)
            /\ C7_Case(log.query, last.query, ds) => C7_Above(log, last, ds)

\* the two calls are an exact query and a proper substring query of a
\* section that both calls returned
C7_Witness ==
    /\ last.made
    /\ log.made
    /\ \E ds \in ManifestSections(s_manifest) :
          /\ C7_Case(last.query, log.query, ds)
          /\ log.query # ""
          /\ Places(last.results, ds) # {}
          /\ Places(log.results, ds) # {}

\* number of sections of the manifest with a final score of 3.0 or more
CountAtLeast3(m, q) ==
    LET n(k) == Cardinality({i \in 1..Len(SectionsOf(m[k][2])) :
                    Score(m[k][1], SectionsOf(m[k][2])[i].label, q) >= 30})
        sum[k \in 0..Len(m)] == IF k = 0 THEN 0 ELSE sum[k - 1] + n(k)
    IN  sum[Len(m)]

\* C8: every result has a score of at least 3.0, every section with a final
\* score of at least 3.0 is returned with that score, and the list is in
\* descending order of score, ties in ascending order of page.
C8_Theorem ==
    last.made =>
        LET res == last.results
        IN  /\ \A i \in 1..Len(res) : res[i].score >= 30
            /\ \A ds \in ManifestSections(s_manifest) :
                  Score(ds[1], ds[2].label, last.query) >= 30 =>
                      \E i \in Places(res, ds) :
                          res[i].score = Score(ds[1], ds[2].label, last.query)
            /\ Len(res) = CountAtLeast3(s_manifest, last.query)
            /\ \A i \in 1..(Len(res) - 1) :
                  \/ res[i].score > res[i + 1].score
                  \/ /\ res[i].score = res[i + 1].score
                     /\ res[i].page <= res[i + 1].page

\* a call has returned results with different scores and with a tie, and has
\* left out a section with a score between 0 and 3.0
C8_Witness ==
    /\ last.made
    /\ \E i, j \in 1..Len(last.results) :
          last.results[i].score > last.results[j].score
    /\ \E i, j \in 1..Len(last.results) :
          /\ i # j
          /\ last.results[i].score = last.results[j].score
          /\ last.results[i].page < last.results[j].page
    /\ \E i \in 1..Len(last.results) : last.results[i].score = 30
    /\ \E ds \in ManifestSections(s_manifest) :
          /\ Score(ds[1], ds[2].label, last.query) > 0
          /\ Score(ds[1], ds[2].label, last.query) < 30

-----------------------------------------------------------------------------
(* Claims about validate_manifest, checked under SpecValidate *)

ValidateDone == v_pc = "done" /\ v_file.readable

\* some entry of the manifest has no 'sections' key
SomeEntryLacksSections ==
    \E k \in 1..Len(v_file.data) : ~Has(v_file.data[k][2], "sections")

\* every entry has 'title' and 'sections', and some section list is empty
C10_EmptyListCase ==
    /\ \A k \in 1..Len(v_file.data) :
          Has(v_file.data[k][2], "title") /\ Has(v_file.data[k][2], "sections")
    /\ \E k \in 1..Len(v_file.data) : v_file.data[k][2].sections = <<>>

\* every section of every entry has 'label' and 'start'
AllSectionsWellFormed ==
    \A k \in 1..Len(v_file.data) :
        Has(v_file.data[k][2], "sections") =>
            \A i \in 1..Len(v_file.data[k][2].sections) :
                /\ Has(v_file.data[k][2].sections[i], "label")
                /\ Has(v_file.data[k][2].sections[i], "start")

\* the empty list of an entry is reported as a warning and not as an issue
EmptyListsOnlyWarned ==
    \A k \in 1..Len(v_file.data) :
        Has(v_file.data[k][2], "sections") /\ v_file.data[k][2].sections = <<>> =>
            /\ \E w \in 1..Len(v_result.warnings) :
                  v_result.warnings[w] = <<v_file.data[k][1], "no sections found", 0>>
            /\ \A x \in 1..Len(v_result.issues) :
                  v_result.issues[x][2] # "no sections found"

\* C10 as stated: a manifest with an entry without 'sections' fails; a
\* manifest whose entries all have 'title' and 'sections', one of them with
\* an empty section list, passes.
C10_Original ==
    ValidateDone =>
        /\ SomeEntryLacksSections => ~v_result.ok
        /\ C10_EmptyListCase => v_result.ok

\* C10, amended: a manifest with an entry without 'sections' fails; a
\* manifest whose entries all have 'title' and 'sections' and whose sections
\* all have 'label' and 'start' passes when some section list is empty, and
\* an empty list is only ever reported as a warning.
C10_Theorem ==
    ValidateDone =>
        /\ SomeEntryLacksSections => ~v_result.ok
        /\ C10_EmptyListCase /\ AllSectionsWellFormed => v_result.ok
        /\ EmptyListsOnlyWarned

\* a manifest with an empty section list next to a well-formed entry has passed
C10_Witness ==
    /\ ValidateDone
    /\ C10_EmptyListCase
    /\ AllSectionsWellFormed
    /\ \E k \in 1..Len(v_file.data) : v_file.data[k][2].sections # <<>>
    /\ v_result.ok
    /\ v_result.warnings # <<>>

-----------------------------------------------------------------------------
(* Claims about the query functions, checked under SpecCalls *)

CallMade(op) == last.made /\ last.op = op

\* the sections of doc_file in stored order, none when the manifest lacks it
StoredSections(doc_file) ==
    LET I == {k \in 1..Len(s_manifest) : s_manifest[k][1] = doc_file}
    IN  IF I = {} THEN <<>>
        ELSE LET data == s_manifest[CHOOSE k \in I : TRUE][2]
             IN  IF "sections" \in DOMAIN data THEN data.sections ELSE <<>>

\* the call recorded last gives the same result when it is made again now
C13_SameAnswer ==
    /\ CallMade("search_all_sections") =>
          last.results = search_all_sections(s_manifest, last.query)
    /\ CallMade("find_page_of_label") =>
          last.result = find_page_of_label(s_manifest, last.doc_file, last.label_substring)
    /\ CallMade("nearest_section_for_page") =>
          last.result = nearest_section_for_page(s_manifest, last.doc_file, last.page)

\* C13: no call of search_all_sections, find_page_of_label or
\* nearest_section_for_page changes the manifest, in whatever order the calls
\* are made, and what a call returned is what the same arguments return on
\* the manifest afterwards
C13_Theorem == [](C13_SameAnswer) /\ [][s_manifest' = s_manifest]_vars

\* a call was made on a manifest whose sections are not stored in page order
C13_Witness ==
    /\ CallMade("nearest_section_for_page")
    /\ last.result # None
    /\ \E k \in 1..Len(s_manifest) :
          /\ s_manifest[k][1] = last.doc_file
          /\ ~IsSortedByStart(s_manifest[k][2].sections)

\* label i of doc_file contains sub, letter case ignored
C14_Matches(doc_file, sub, i) ==
    Contains(lower(sub), lower(StoredSections(doc_file)[i].label))

\* C14: find_page_of_label returns the start of the first section in stored
\* order whose label contains the substring case-insensitively, and None when
\* the document is missing or no label contains it
C14_Theorem ==
    CallMade("find_page_of_label") =>
        LET secs == StoredSections(last.doc_file)
            M    == {i \in 1..Len(secs) : C14_Matches(last.doc_file, last.label_substring, i)}
        IN  /\ M = {} => last.result = None
            /\ M # {} =>
                  \E i \in M : /\ \A j \in M : i <= j
                               /\ last.result = Some(secs[i].start)

\* the first match in stored order differs in case and is not the match with
\* the smallest page
C14_Witness ==
    /\ CallMade("find_page_of_label")
    /\ last.result # None
    /\ LET secs == StoredSections(last.doc_file)
       IN  \E i, j \in 1..Len(secs) :
              /\ C14_Matches(last.doc_file, last.label_substring, i)
              /\ C14_Matches(last.doc_file, last.label_substring, j)
              /\ i < j
              /\ secs[j].start < secs[i].start
              /\ last.result = Some(secs[i].start)
              /\ ~Contains(last.label_substring, secs[i].label)

\* the lowercased, trimmed query of the search recorded last
QueryLower == strip(lower(last.query))

IsBiography(doc_file) == Contains("bios_", lower(doc_file))

\* the first line of the label contains a canonical architect name
NamesArchitect(label) ==
    \E i \in 1..Len(architect_names) :
        Contains(lower(architect_names[i][2]), FirstLineOf(label))

\* the section is in the results with this score, or the score is under 3.0
ReturnedWith(ds, score) ==
    score >= MinScore => \E i \in Places(last.results, ds) : last.results[i].score = score

\* C15 as stated: a section of a biography document whose first line contains
\* a canonical architect name scores 1.5 more than the same label scores for
\* the same query in a document that is not a biography document.
C15_Original ==
    CallMade("search_all_sections") =>
        \A ds \in ManifestSections(s_manifest) :
            IsBiography(ds[1]) /\ NamesArchitect(ds[2].label) =>
                ReturnedWith(ds, Score("plain.pdf", ds[2].label, last.query) + 15)

\* the first architect key in table order that the query contains, 0 if none
FirstArchitectKey(query_lower) ==
    LET I == {i \in 1..Len(architect_names) : Contains(architect_names[i][1], query_lower)}
    IN  IF I = {} THEN 0 ELSE CHOOSE i \in I : \A j \in I : i <= j

\* C16 as stated: when the query contains an architect key, the working query
\* is that key's canonical name and every section whose first line contains
\* the canonical name and is not the query itself has base score 8.0.
C16_Original ==
    CallMade("search_all_sections") /\ FirstArchitectKey(QueryLower) # 0 =>
        LET name == architect_names[FirstArchitectKey(QueryLower)][2]
        IN  /\ last.expanded = name
            /\ \A ds \in ManifestSections(s_manifest) :
                  LET first_line == FirstLineOf(ds[2].label)
                  IN  Contains(lower(name), first_line) /\ first_line # QueryLower =>
                          ReturnedWith(ds, 80 + Adjust(ds[1], ds[2].label, first_line))

\* the indexes of the keys of a table that the query contains
KeysIn(dict, query_lower) ==
    {i \in 1..Len(dict) : Contains(dict[i][1], query_lower)}

\* C19: the working query is the canonical name of the first architect key,
\* in table order, that the lowercased query contains; without an architect
\* key it is the canonical style of the first style key, in table order,
\* that the query contains, whatever longer keys follow; without any key it
\* is the lowercased, trimmed query
C19_Theorem ==
    CallMade("search_all_sections") =>
        LET A == KeysIn(architect_names, QueryLower)
            S == KeysIn(style_patterns, QueryLower)
        IN  /\ A # {} =>
                  \E i \in A : /\ \A j \in A : i <= j
                               /\ last.expanded = architect_names[i][2]
            /\ A = {} /\ S # {} =>
                  \E i \in S : /\ \A j \in S : i <= j
                               /\ last.expanded = style_patterns[i][2]
            /\ A = {} /\ S = {} => last.expanded = QueryLower

\* the query contains two style keys, the longer one later in the table and
\* with another canonical style, and the first one has won
C19_Witness ==
    /\ CallMade("search_all_sections")
    /\ KeysIn(architect_names, QueryLower) = {}
    /\ \E i, j \in KeysIn(style_patterns, QueryLower) :
          /\ i < j
          /\ Len(style_patterns[j][1]) > Len(style_patterns[i][1])
          /\ style_patterns[j][2] # style_patterns[i][2]
          /\ last.expanded = style_patterns[i][2]
          /\ \A k \in KeysIn(style_patterns, QueryLower) : i <= k

\* the rules of the base score in their order, each with whether it applies
C20_Rules(query_lower, expanded, first_line) ==
    << [value |-> 100, applies |-> query_lower = first_line],
       [value |-> 80,  applies |-> Contains(expanded, first_line)],
       [value |-> 50,  applies |-> Contains(query_lower, first_line)],
       [value |-> 30,  applies |-> \E i \in KeysIn(style_patterns, query_lower) :
                                      Contains(style_patterns[i][1], first_line)],
       [value |-> 40,  applies |-> \E i \in 1..Len(architect_names) :
                                      /\ Contains(lower(architect_names[i][2]), query_lower)
                                      /\ Contains(lower(architect_names[i][2]), first_line)],
       [value |-> 20,  applies |-> \E k \in 1..Len(split(query_lower)) :
                                      /\ Len(split(query_lower)[k]) > 2
                                      /\ Contains(split(query_lower)[k], first_line)],
       [value |-> 0,   applies |-> TRUE] >>

\* the final score of the formula for a label outside a biography document
C20_Final(label) ==
    LET first_line == strip(lower(split_nl(label)[1]))
        rules      == C20_Rules(QueryLower, last.expanded, first_line)
        first      == CHOOSE r \in 1..Len(rules) :
                         rules[r].applies /\ \A k \in 1..(r - 1) : ~rules[k].applies
    IN  rules[first].value
        + (IF Contains("evaluation criteria", first_line) THEN 20 ELSE 0)
        - (IF Len(label) > MaxLabelLen THEN 10 ELSE 0)

\* C20: for a section of a document that is not a biography document the
\* score is the value of the first rule that applies to the lowercased first
\* line of the label (10.0, 8.0, 5.0, 3.0, 4.0, 2.0, else 0), plus 2.0 when
\* the first line contains 'evaluation criteria', minus 1.0 when the whole
\* label has more than 200 characters; the section is returned with that
\* score when it is 3.0 or more and is left out below that
C20_Theorem ==
    CallMade("search_all_sections") =>
        \A ds \in ManifestSections(s_manifest) :
            ~IsBiography(ds[1]) =>
                /\ ReturnedWith(ds, C20_Final(ds[2].label))
                /\ C20_Final(ds[2].label) < MinScore => Places(last.results, ds) = {}

\* a returned label whose first line equals the query and is short, with
\* later lines that take it over 200 characters: 10.0 - 1.0
C20_Witness ==
    /\ CallMade("search_all_sections")
    /\ \E ds \in ManifestSections(s_manifest) :
          /\ ~IsBiography(ds[1])
          /\ Len(ds[2].label) > MaxLabelLen
          /\ Len(FirstLineOf(ds[2].label)) <= MaxLabelLen
          /\ FirstLineOf(ds[2].label) = QueryLower
          /\ \E i \in Places(last.results, ds) : last.results[i].score = 90

-----------------------------------------------------------------------------
(* Claims about parse_bio_document, checked under SpecBio *)

BioDone == bio_pc = "done"

\* the stripped lines of page p (1-based) of the document, none without text
PageLines(p) ==
    LET t == extract_pdf_text_safely(bio_doc, p - 1)
    IN  IF t = "" THEN <<>>
        ELSE [i \in 1..Len(split_nl(t)) |-> strip(split_nl(t)[i])]

\* every line of the document as <<page, position in the page>>
LinePlaces ==
    UNION {{<<p, i>> : i \in 1..Len(PageLines(p))} : p \in 1..Len(bio_doc.pages)}

LineAt(pl) == PageLines(pl[1])[pl[2]]

\* the sections returned with this label and page
SectionsFor(label, start) ==
    {k \in 1..Len(bio_res) : bio_res[k] = [label |-> label, start |-> start]}

\* number of rules the line meets, each rule taken with its own test
RulesMet(line) ==
    (IF NameRule(line) THEN 1 ELSE 0) + (IF SeeAlsoRule(line) THEN 1 ELSE 0)
    + (IF FirmRule(line) THEN 1 ELSE 0)

\* C17 as stated: the three rules contribute independently, a line that
\* meets k of them adds k sections.
C17_Original ==
    BioDone =>
        Len(bio_res) =
            Cardinality({x \in LinePlaces \X (1..3) :
                            \/ x[2] = 1 /\ NameRule(LineAt(x[1]))
                            \/ x[2] = 2 /\ SeeAlsoRule(LineAt(x[1]))
                            \/ x[2] = 3 /\ FirmRule(LineAt(x[1]))})

\* the first of the three patterns that the line matches, in the order name
\* form, 'See also:' prefix, firm pattern, passes its length test
AddsSection(line) ==
    LET name == NameForm(line)
        also == StartsWith(line, "See also:") /\ Len(line) > 10
    IN  /\ Len(line) >= 3
        /\ \/ name /\ Len(strip(BeforeComma(line))) > 2
           \/ ~name /\ also /\ Len(strip(From(line, 11))) > 3
           \/ ~name /\ ~also /\ FirmForm(line) /\ Len(line) > 5

\* C17, amended: the three rules are tried in the order name form, 'See
\* also:' prefix, firm pattern, and only the first whose pattern matches the
\* line is applied: the line adds one section (its text, page + 1) when that
\* rule's length test passes and none otherwise, so a line that meets
\* several rules adds one section, never one per rule.
C17_Theorem ==
    BioDone =>
        /\ \A pl \in LinePlaces :
              Cardinality(SectionsFor(LineAt(pl), pl[1])) =
                  Cardinality({x \in LinePlaces : /\ x[1] = pl[1]
                                                  /\ LineAt(x) = LineAt(pl)
                                                  /\ AddsSection(LineAt(x))})
        /\ Len(bio_res) = Cardinality({pl \in LinePlaces : AddsSection(LineAt(pl))})
        /\ \A k \in 1..(Len(bio_res) - 1) : bio_res[k].start <= bio_res[k + 1].start

\* a line in name form that also holds a firm name has added one section
C17_Witness ==
    /\ BioDone
    /\ \E pl \in LinePlaces :
          /\ NameRule(LineAt(pl))
          /\ FirmRule(LineAt(pl))
          /\ Cardinality(SectionsFor(LineAt(pl), pl[1])) = 1

\* the line is in name form, or begins with 'See also:' and has more than 10
\* characters
C18_Case(line) ==
    NameForm(line) \/ (StartsWith(line, "See also:") /\ Len(line) > 10)

\* C18 as stated: every line in name form, two-letter surnames included, and
\* every line beginning with 'See also:' of more than 10 characters yields a
\* section with the line as label on page p + 1.
C18_Original ==
    BioDone =>
        \A pl \in LinePlaces :
            C18_Case(LineAt(pl)) => SectionsFor(LineAt(pl), pl[1]) # {}

\* C18, amended: a line in name form yields a section (label the line, start
\* p + 1) when its surname, the text before the first comma, has more than 2
\* characters, and a line beginning with 'See also:' of more than 10
\* characters yields one when the text after its 10th character, trimmed,
\* has more than 3 characters; a line in name form with a shorter surname
\* ('Li, Wei') and a 'See also:' line with a shorter rest ('See also: Bo')
\* yield no section.
C18_Theorem ==
    BioDone =>
        \A pl \in LinePlaces :
            LET line == LineAt(pl)
            IN  C18_Case(line) =>
                    IF \/ NameForm(line) /\ Len(strip(BeforeComma(line))) > 2
                       \/ ~NameForm(line) /\ Len(strip(From(line, 11))) > 3
                    THEN SectionsFor(line, pl[1]) # {}
                    ELSE SectionsFor(line, pl[1]) = {}

\* a page with a two-letter surname and a short 'See also:' line has added
\* nothing, next to a page whose name line has become a section
C18_Witness ==
    /\ BioDone
    /\ \E a, b, c \in LinePlaces :
          /\ NameForm(LineAt(a))
          /\ Len(strip(BeforeComma(LineAt(a)))) = 2
          /\ SectionsFor(LineAt(a), a[1]) = {}
          /\ StartsWith(LineAt(b), "See also:")
          /\ Len(LineAt(b)) > 10
          /\ SectionsFor(LineAt(b), b[1]) = {}
          /\ NameForm(LineAt(c))
          /\ SectionsFor(LineAt(c), c[1]) # {}

-----------------------------------------------------------------------------
(* Further claims about search_all_sections, checked under SpecCalls *)

\* none of the six rules of the base score applies to the label
NoRuleApplies(label) ==
    LET rules == C20_Rules(QueryLower, last.expanded, FirstLineOf(label))
    IN  \A r \in 1..6 : ~rules[r].applies

C27_Original ==
    CallMade("search_all_sections") /\ QueryLower = "" => last.results = <<>>

-----------------------------------------------------------------------------
(* Claims about find_toc_pages, checked under SpecBuild *)

\* page p (0-based) of the document has text that names an indicator or has
\* more than 20 dots
Qualifies(doc, p) ==
    LET t == doc.pages[p + 1]
    IN  /\ t # Unreadable
        /\ t # ""
        /\ \/ \E indicator \in toc_indicators : Contains(indicator, lower(t))
           \/ DotCount(t) > DotLimit

QualifyingPages(doc) ==
    {p \in 0..(PageCount(doc) - 1) : p < Min(TocSearchPages, PageCount(doc)) /\ Qualifies(doc, p)}

\* the sequence holds exactly the numbers of S, in ascending order
AscendingOf(seq, S) ==
    /\ {seq[k] : k \in 1..Len(seq)} = S
    /\ \A k \in 1..(Len(seq) - 1) : seq[k] < seq[k + 1]

\* C22: find_toc_pages returns in ascending order exactly the pages before
\* index min(10, pageCount) whose text names an indicator or has more than
\* 20 dots, and the pages 0..min(7, pageCount)-1 when there is none
C22_Theorem ==
    b_pc = "toc" =>
        IF QualifyingPages(Cur) # {}
        THEN AscendingOf(toc_pages, QualifyingPages(Cur))
        ELSE AscendingOf(toc_pages, 0..(Min(TocDefaultPages, PageCount(Cur)) - 1))

\* a page with exactly 20 dots was left out, a page with 21 dots was taken,
\* and a page at index 10 with an indicator was left out
C22_Witness ==
    /\ b_pc = "toc"
    /\ \E p, q, r \in 0..(PageCount(Cur) - 1) :
          /\ DotCount(Cur.pages[p + 1]) = DotLimit
          /\ ~Qualifies(Cur, p)
          /\ \A k \in 1..Len(toc_pages) : toc_pages[k] # p
          /\ DotCount(Cur.pages[q + 1]) = DotLimit + 1
          /\ toc_pages = <<q>>
          /\ r >= TocSearchPages
          /\ Qualifies(Cur, r)

-----------------------------------------------------------------------------
(* Further claims about parse_toc_lines, checked under SpecToc *)

\* two whitespace characters in a row, two dots in a row, or an ellipsis
Unclean(label) ==
    \/ \E i \in 1..(Len(label) - 1) :
          Ch(label, i) \in Whitespace /\ Ch(label, i + 1) \in Whitespace
    \/ Contains("..", label)
    \/ Contains(Ellipsis, label)

\* C23 as stated: no label parse_toc_lines emits contains two consecutive
\* whitespace characters, two consecutive dots or an ellipsis character.
C23_Original ==
    toc_pc = "done" => \A i \in 1..Len(toc_out) : ~Unclean(toc_out[i][1])

\* a line built from a label the filter keeps, in normalised form, and a
\* page of 1 to 4 digits
C24_Case ==
    /\ toc_pc = "done"
    /\ pg \in 1..9999
    /\ C1_ValidLabel(lbl)
    /\ C1_Normalised(lbl)

\* C24 as stated: 'L..n' and 'L........n' without whitespace around the dots
\* yield (L, n), as does 'L   n'.
C24_Original ==
    C24_Case /\ form \in {"tight", "tight8", "wide"} => toc_out = <<<<lbl, pg>>>>

\* C24, amended: the separator of rule 1 is whitespace followed by two or
\* more dots and optional whitespace, or three or more whitespace
\* characters: 'L ..n', 'L ........ n' and 'L   n' yield exactly (L, n),
\* while 'L..n' and 'L........n', with no whitespace before the dots, match
\* no rule and yield nothing.
C24_Theorem ==
    /\ C24_Case /\ form \in {"lead", "dots", "wide"} => toc_out = <<<<lbl, pg>>>>
    /\ C24_Case /\ form \in {"tight", "tight8"} => toc_out = <<>>

\* 'L ..n' has given (L, n): whitespace before the dots only, which rule 2
\* cannot match
C24_Witness ==
    /\ C24_Case
    /\ form = "lead"
    /\ ~Search2(text)[1]
    /\ toc_out = <<<<lbl, pg>>>>

-----------------------------------------------------------------------------
(* Further claims about validate_manifest, checked under SpecValidate *)

\* an entry without 'title' or 'sections', or a section without 'label' or
\* 'start'
StructuralIssue ==
    \E k \in 1..Len(v_file.data) :
        LET e == v_file.data[k][2]
        IN  \/ ~Has(e, "title")
            \/ ~Has(e, "sections")
            \/ /\ Has(e, "sections")
               /\ \E i \in 1..Len(e.sections) :
                     ~Has(e.sections[i], "label") \/ ~Has(e.sections[i], "start")

\* C25 as stated: a readable manifest fails if and only if it has a
\* structural issue; without one it passes, the empty manifest included.
C25_Original == ValidateDone => (~v_result.ok <=> StructuralIssue)

\* C25, amended: a readable manifest fails if and only if it is empty or has
\* a structural issue; warnings never make it fail, so a manifest that is
\* not empty and has no structural issue passes whatever warnings it has.
C25_Theorem ==
    ValidateDone =>
        /\ ~v_result.ok <=> (v_file.data = <<>> \/ StructuralIssue)
        /\ v_result.ok => v_result.issues = <<>>
        /\ v_file.data = <<>> => v_result.issues = <<>> /\ v_result.warnings = <<>>

\* a manifest with an empty section list, a page-order anomaly and no
\* criteria section has passed with the three warnings
C25_Witness ==
    /\ ValidateDone
    /\ v_result.ok
    /\ ~StructuralIssue
    /\ \A kind \in {"no sections found", "page is not after previous page",
                    "no 'Evaluation Criteria' sections found"} :
          \E w \in 1..Len(v_result.warnings) : v_result.warnings[w][2] = kind

-----------------------------------------------------------------------------
(* Further claims about build_manifest, checked under SpecBuild *)

\* a call of build_manifest has returned
BuildDone == b_pc = "idle" /\ run >= 1

\* no document of the directory yields a section
NothingYields == \A d \in Listed : ~Yields(d)

\* the file holds a manifest without entries
EmptyManifestWritten == out_file.exists /\ DOMAIN out_file.data = {}

\* C26 as stated: with no PDF file, or with documents none of which yields a
\* section, build_manifest writes an empty manifest and reports no failure.
C26_Original ==
    BuildDone /\ NothingYields =>
        EmptyManifestWritten /\ ExitCode(result) = 0

\* C26, amended: with documents none of which yields a section,
\* build_manifest writes an empty manifest and returns True; with no PDF
\* file at all it returns without a value before anything is written, the
\* manifest file is left as it was, and the script takes the return value
\* for a failed build.
C26_Theorem ==
    BuildDone /\ NothingYields =>
        IF pdf_files # <<>>
        THEN EmptyManifestWritten /\ result = "True" /\ ExitCode(result) = 0
        ELSE out_file = NoFile /\ result = "None" /\ ExitCode(result) = 1

\* the call on a directory without a PDF file has returned
C26_Witness ==
    /\ BuildDone
    /\ pdf_files = <<>>
    /\ result = "None"
    /\ ~out_file.exists

====
